---- MODULE Spec2Model ----
(***************************************************************************)
(* A model of the Alma API client library (src/src/alma_api_client):       *)
(* the response envelope (models/api.py), the set mapper (models/sets.py), *)
(* the MARC record mapper (models/marc_records.py), the facade             *)
(* (clients/alma_api_client.py) and the analytics client                   *)
(* (clients/alma_analytics_client.py).                                     *)
(*                                                                         *)
(* One caller drives the library, one operation at a time.  The transport  *)
(* (requests.request) and the vendor's server are the environment: every   *)
(* response is a nondeterministic choice among the shapes the vendor's     *)
(* wire formats allow, including failures.                                 *)
(*                                                                         *)
(* Python values are modelled as tagged records [t |-> <type>, v |-> ...]  *)
(* so that isinstance tests, len() and iteration behave as in Python.      *)
(***************************************************************************)
EXTENDS Integers, Sequences, FiniteSets, TLC

VARIABLES
    pc,            \* position of the caller inside the current facade call
    op,            \* facade method in progress ("" when idle)
    reqLog,        \* history: the transport requests issued by the current call
    api_response,  \* local api_response: the latest transport response
    result,        \* outcome of the call: none / return value / raised exception
    serverStatus,  \* environment: status of the job instance on the server
    status,        \* wait_for_completion: local status
    server,        \* environment: the set as the server holds it
    get_all,       \* get_set: argument get_all_members
    alma_set,      \* get_set: local alma_set (the Set object)
    members,       \* get_set: local members
    offset,        \* get_set: local offset
    addCalls,      \* history: number of Set.add_members calls of the current call
    rec,           \* the record object the caller holds
    xml_out,       \* what the caller's last read of rec.alma_xml gave
    wrapper,       \* history: the wrapper XML that rec was built from
    assigned,      \* history: the attributes of rec the caller has assigned
    read,          \* what the caller's last read of a property of the envelope gave
    args,          \* history: the arguments of the current call of _call_api,
                   \* or the settings of the analytics client at get_report
    report,        \* environment: the report as the server pages it
    report_data,   \* get_report: local report_data
    all_rows,      \* get_report: local all_rows
    column_names,  \* get_report: local column_names
    subsequent_params  \* get_report: local subsequent_params

callVars == <<pc, op, reqLog, api_response, result>>
jobVars  == <<serverStatus, status>>
setVars  == <<server, get_all, alma_set, members, offset, addCalls>>
marcVars == <<rec, xml_out, wrapper, assigned>>
envVars  == <<read>>
argVars  == <<args>>
reportVars == <<report, report_data, all_rows, column_names, subsequent_params>>
vars     == <<callVars, jobVars, setVars, marcVars, envVars, argVars, reportVars>>

\* What the actions of one component leave alone.
OtherThanJob == <<setVars, marcVars, envVars, argVars, reportVars>>
OtherThanSet == <<jobVars, marcVars, envVars, argVars, reportVars>>
OtherThanMarc == <<jobVars, setVars, envVars, argVars, reportVars>>
OtherThanCall == <<jobVars, setVars, marcVars, envVars, argVars, reportVars>>
OtherThanEnv == <<jobVars, setVars, marcVars, argVars, reportVars>>
OtherThanArgs == <<jobVars, setVars, marcVars, envVars, reportVars>>
OtherThanReport == <<jobVars, setVars, marcVars, envVars>>

-----------------------------------------------------------------------------
(* Bounds of the model.                                                    *)

\* The request history keeps the first MaxReqLog requests of a call.
MaxReqLog == 8
\* Largest declared / actual number of set members.
MaxMembers == 250
\* Page size of a server that caps pages below the requested limit.
ShortCap == 50
\* Failed member-page responses the server may give within one call.
MaxFaults == 1
\* Attributes the caller assigns to one record object.
MaxAssign == 1
\* Characters of an X-Exl-Api-Remaining header value.
MaxHeaderLen == 3
\* Pages of an analytics report.
MaxPages == 3

-----------------------------------------------------------------------------
(* Python values.                                                          *)

JStr(s)  == [t |-> "str", v |-> s]
JInt(n)  == [t |-> "int", v |-> n]
JList(s) == [t |-> "list", v |-> s]
JDict(f) == [t |-> "dict", v |-> f]
JBytes(b) == [t |-> "bytes", v |-> b]
JNone    == [t |-> "none"]
EmptyDict == JDict(<<>>)
EmptyList == JList(<<>>)

\* dict.get(key, default)
Get(d, key, default) == IF key \in DOMAIN d.v THEN d.v[key] ELSE default

\* len(x) for a list or a dict (the number of keys)
PyLen(x) == IF x.t = "list" THEN Len(x.v) ELSE Cardinality(DOMAIN x.v)

\* bool(x)
Truthy(x) ==
    CASE x.t = "none" -> FALSE
      [] x.t = "str"  -> x.v # ""
      [] x.t = "int"  -> x.v # 0
      [] x.t = "list" -> Len(x.v) > 0
      [] x.t = "dict" -> DOMAIN x.v # {}
      [] OTHER -> TRUE

RECURSIVE SetToSeq(_)
SetToSeq(S) == IF S = {} THEN <<>>
               ELSE LET x == CHOOSE y \in S : TRUE IN <<x>> \o SetToSeq(S \ {x})

\* The items a for loop over x visits: the elements of a list, the keys of a dict.
PyIter(x) == IF x.t = "list" THEN x.v
             ELSE LET ks == SetToSeq(DOMAIN x.v) IN [i \in 1..Len(ks) |-> JStr(ks[i])]

Min(a, b) == IF a < b THEN a ELSE b

-----------------------------------------------------------------------------
(* Transport responses: status code, headers and body.  A body is the      *)
(* bytes of a JSON document, the bytes of an XML document, empty, or       *)
(* bytes that are neither.                                                 *)

JsonBody(doc) == [t |-> "json", doc |-> doc]
XmlBody(doc)  == [t |-> "xml", doc |-> doc]
EmptyBody     == [t |-> "empty"]
GarbageBody   == [t |-> "garbage"]

\* A header value is the sequence of the pieces it is written with:
\* "application/json;charset=UTF-8" is "application/", "json", ";charset=UTF-8".
CtJson == <<"application/", "json", ";charset=UTF-8">>
CtXml  == <<"application/", "xml", ";charset=UTF-8">>

\* The text a header value stands for.
RECURSIVE Join(_)
Join(pieces) == IF pieces = <<>> THEN "" ELSE Head(pieces) \o Join(Tail(pieces))

Response(code, headers, body) ==
    [status_code |-> code, headers |-> headers, body |-> body]

JsonResponse(code, doc) ==
    Response(code, [ContentType |-> CtJson], JsonBody(doc))

NoResponse == [status_code |-> 0]

\* ok read as "the status is a success or a redirect".
ResponseOk_successRange(response) ==
    200 <= response.status_code /\ response.status_code < 400

\* requests.Response.ok: raise_for_status() raises for 400 <= status < 600.
ResponseOk(response) ==
    ~(400 <= response.status_code /\ response.status_code < 600)

\* requests.Response.json(): the document, or JSONDecodeError.
JsonDecodes(response) == response.body.t = "json"

-----------------------------------------------------------------------------
(* models/api.py: APIResponse and APIError.                                *)

\* The pieces whose first character is one of a-z.
LowerInitial == {"json", "xml", "html", "vnd.api+json", "application/", "text/", "x-"}

\* A content type that is matched against the whole header.
content_type_anchored(response) ==
    LET ct_header == IF "ContentType" \in DOMAIN response.headers
                     THEN response.headers.ContentType ELSE <<>>
    IN IF /\ Len(ct_header) = 3
          /\ ct_header[1] = "application/"
          /\ ct_header[2] \in LowerInitial
          /\ ct_header[3] = ";charset=UTF-8"
       THEN ct_header[2] ELSE ""

\* APIResponse.content_type: group 1 of the first match that
\* re.search(r"application/([a-z].*);charset=UTF-8", ct_header) finds.  The
\* search starts at the leftmost "application/" that a match can start at, and
\* the greedy .* runs to the last ";charset=UTF-8"; no match gives "".
content_type(response) ==
    LET ct_header == IF "ContentType" \in DOMAIN response.headers
                     THEN response.headers.ContentType ELSE <<>>
        ends(i) == { j \in (i + 2)..Len(ct_header) : ct_header[j] = ";charset=UTF-8" }
        starts == { i \in 1..(Len(ct_header) - 2) :
                        /\ ct_header[i] = "application/"
                        /\ ct_header[i + 1] \in LowerInitial
                        /\ ends(i) # {} }
    IN IF starts = {} THEN ""
       ELSE LET i == CHOOSE a \in starts : \A b \in starts : a <= b
                j == CHOOSE a \in ends(i) : \A b \in ends(i) : b <= a
            IN Join(SubSeq(ct_header, i + 1, j - 1))

\* int(s) for a string of the characters 0-9, +, - and letters: an optional
\* sign and one or more digits, or ValueError.
DigitValue ==
    [c \in {"0", "1", "2", "3", "4", "5", "6", "7", "8", "9"} |->
        CASE c = "0" -> 0 [] c = "1" -> 1 [] c = "2" -> 2 [] c = "3" -> 3
          [] c = "4" -> 4 [] c = "5" -> 5 [] c = "6" -> 6 [] c = "7" -> 7
          [] c = "8" -> 8 [] c = "9" -> 9]

Unsigned(s) == IF s # <<>> /\ s[1] \in {"+", "-"} THEN Tail(s) ELSE s

\* A test with str.isdigit() in place of int().
IntParses_isdigit(s) ==
    s # <<>> /\ \A i \in DOMAIN s : s[i] \in DOMAIN DigitValue

IntParses(s) ==
    Unsigned(s) # <<>> /\ \A i \in DOMAIN Unsigned(s) : Unsigned(s)[i] \in DOMAIN DigitValue

RECURSIVE Decimal(_)
Decimal(digits) ==
    IF digits = <<>> THEN 0
    ELSE 10 * Decimal(SubSeq(digits, 1, Len(digits) - 1)) + DigitValue[digits[Len(digits)]]

PyInt(s) == IF s[1] = "-" THEN 0 - Decimal(Unsigned(s)) ELSE Decimal(Unsigned(s))

\* APIResponse.api_calls_remaining
api_calls_remaining(response) ==
    LET calls_remaining == IF "XExlApiRemaining" \in DOMAIN response.headers
                           THEN response.headers.XExlApiRemaining ELSE <<"0">>
    IN IF IntParses(calls_remaining) THEN PyInt(calls_remaining) ELSE 0

\* An envelope that never decodes the body.
APIResponse_api_data_raw(response) == JDict([content |-> JBytes(response.body)])

\* An envelope that decodes every body as JSON, whatever its content type.
APIResponse_api_data_json(response) ==
    IF JsonDecodes(response) THEN response.body.doc ELSE EmptyDict

\* APIResponse.__init__: api_data
APIResponse_api_data(response) ==
    IF content_type(response) = "json"
    THEN IF JsonDecodes(response) THEN response.body.doc ELSE EmptyDict
    ELSE JDict([content |-> JBytes(response.body)])

APIResponse(response) ==
    [response |-> response, api_data |-> APIResponse_api_data(response)]

\* xmltodict.parse(bytes) raises ExpatError unless the bytes are well-formed XML.
XmlParses(bytes) == bytes.t = "bytes" /\ bytes.v.t = "xml"

\* Outcomes of a call.
NoResult == [kind |-> "none"]
Return(value) == [kind |-> "return", value |-> value]
Raise(exc) == [kind |-> "raise", exc |-> exc]

\* raise APIError(response, message): the exception object, unless building it
\* fails in _update_api_data_from_xml.
RaiseAPIError(response, message) ==
    IF content_type(response) = "xml"
       /\ ~XmlParses(Get(APIResponse_api_data(response), "content", JBytes(EmptyBody)))
    THEN Raise("ExpatError")
    ELSE [kind |-> "raise", exc |-> "APIError", message |-> message,
          status_code |-> response.status_code]

-----------------------------------------------------------------------------
(* The transport: every request is logged, then answered.                  *)

Request(method, api, parameters) ==
    [method |-> method, api |-> api, parameters |-> parameters]

NoParams == <<>>

\* _call_api: one requests.request call.
Logged(log, request) ==
    IF Len(log) < MaxReqLog THEN Append(log, request) ELSE log

\* str.lower() of the method names a caller may pass.
Lower(s) ==
    LET lowered == ("GET" :> "get") @@ ("Post" :> "post") @@ ("PUT" :> "put")
                   @@ ("DeLeTe" :> "delete") @@ ("HEAD" :> "head")
    IN IF s \in DOMAIN lowered THEN lowered[s] ELSE s

\* _call_api, lines 62-73, with the method compared as it was passed.
CallApiError_caseSensitive(method, data_format) ==
    IF method \notin {"delete", "get", "post", "put"}
    THEN <<"Unsupported method: ", method>>
    ELSE IF data_format \notin {"json", "xml"}
    THEN <<"Unsupported format: ", data_format>>
    ELSE <<>>

\* _call_api, lines 62-73: the message of the ValueError it raises, <<>> if none.
CallApiError(method, data_format) ==
    IF Lower(method) \notin {"delete", "get", "post", "put"}
    THEN <<"Unsupported method: ", method>>
    ELSE IF data_format \notin {"json", "xml"}
    THEN <<"Unsupported format: ", data_format>>
    ELSE <<>>

ErrorDoc ==
    JDict([errorsExist |-> JStr("true"),
           errorList |-> JDict([error |-> JDict(
               [errorCode |-> JStr("60107"),
                errorMessage |-> JStr("Set not found: Set ID abc"),
                trackingId |-> JStr("E01")])])])

\* Failed responses of any endpoint.
ErrorResponses ==
    { JsonResponse(500, ErrorDoc),
      JsonResponse(404, ErrorDoc),
      Response(400, [ContentType |-> CtXml], EmptyBody),
      Response(500, <<>>, GarbageBody) }

-----------------------------------------------------------------------------
(* wait_for_completion                                                     *)

InProgress == {"QUEUED", "PENDING", "INITIALIZING", "RUNNING", "FINALIZING"}

JobStatuses == InProgress \cup {"COMPLETED_SUCCESS", "COMPLETED_FAILED"}

\* The order in which a job instance moves through its statuses.
NextJobStatus(s) ==
    CASE s = "QUEUED" -> {"PENDING"}
      [] s = "PENDING" -> {"INITIALIZING"}
      [] s = "INITIALIZING" -> {"RUNNING"}
      [] s = "RUNNING" -> {"FINALIZING", "COMPLETED_FAILED"}
      [] s = "FINALIZING" -> {"COMPLETED_SUCCESS", "COMPLETED_FAILED"}
      [] OTHER -> {}

JobDoc(s) == JDict([id |-> JStr("1"), status |-> JDict([value |-> JStr(s)])])

\* What a GET of the job instance may answer while the server's status is s.
JobResponses(s) == { JsonResponse(200, JobDoc(s)) } \cup ErrorResponses

\* response_obj.api_data.get("status", {}).get("value", "")
StatusOf(response) ==
    Get(Get(APIResponse_api_data(response), "status", EmptyDict), "value", JStr("")).v

\* Lines 214-221: the request, and the first status read.
WaitForCompletionCall ==
    /\ pc = "idle"
    /\ \E s0 \in JobStatuses : \E r \in JobResponses(s0) :
        /\ serverStatus' = s0
        /\ api_response' = r
        /\ status' = StatusOf(r)
    /\ op' = "wait_for_completion"
    /\ reqLog' = Logged(reqLog, Request("get", "job_instance", NoParams))
    /\ pc' = "wfc_test"
    /\ UNCHANGED <<result, OtherThanJob>>

\* Line 225, the test of the while loop, and lines 237-240 when it fails.
WaitForCompletionTest ==
    /\ pc = "wfc_test"
    /\ IF status \in InProgress
       THEN /\ pc' = "wfc_sleep"
            /\ UNCHANGED result
       ELSE /\ result' = IF ResponseOk(api_response)
                          THEN Return(APIResponse(api_response))
                          ELSE RaiseAPIError(api_response, "Error completing job.")
            /\ pc' = IF result'.kind = "return" THEN "returned" ELSE "raised"
    /\ UNCHANGED <<op, reqLog, api_response, jobVars, OtherThanJob>>

\* Lines 232-235, the body of the while loop: the status is read again from
\* the response already held, then the caller sleeps.
WaitForCompletionPoll ==
    /\ pc = "wfc_sleep"
    /\ status' = StatusOf(api_response)
    /\ pc' = "wfc_test"
    /\ UNCHANGED <<op, reqLog, api_response, result, serverStatus, OtherThanJob>>

\* The environment: the job instance runs on while the caller waits.
JobProgress ==
    /\ op = "wait_for_completion"
    /\ pc \in {"wfc_test", "wfc_sleep"}
    /\ \E s \in NextJobStatus(serverStatus) : serverStatus' = s
    /\ UNCHANGED <<callVars, status, OtherThanJob>>

-----------------------------------------------------------------------------
(* models/sets.py: Set and SetMember.                                      *)

\* The descriptions of the SetContentType enumeration.
SetContentTypes ==
    { "Authorities", "All Titles", "All Discovery Titles", "Courses",
      "Digital files", "Physical holdings", "Collections", "Digital titles",
      "Electronic titles", "Inventory titles", "Electronic collections",
      "Physical titles", "Research assets", "Physical items", "Order lines",
      "Electronic portfolios", "Citations", "Reading lists",
      "Digital remote representations", "Digital representations",
      "Researchers", "User", "Vendor" }

\* class SetContentType(Enum): the members and their values.
SetContentTypeMembers ==
    [AUTHORITY_MMS |-> "Authorities", BIB_MMS |-> "All Titles",
     BIB_MMS_DISCOVERY |-> "All Discovery Titles", COURSE |-> "Courses",
     FILE |-> "Digital files", HOLDING |-> "Physical holdings",
     IEC |-> "Collections", IED |-> "Digital titles", IEE |-> "Electronic titles",
     IE |-> "Inventory titles", IEPA |-> "Electronic collections",
     IEP |-> "Physical titles", IER |-> "Research assets", ITEM |-> "Physical items",
     PO_LINE |-> "Order lines", PORTFOLIO |-> "Electronic portfolios",
     READING_LIST_CITATION |-> "Citations", READING_LIST |-> "Reading lists",
     REMOTE_REPRESENTATION |-> "Digital remote representations",
     REPRESENTATION |-> "Digital representations", RESEARCHERS |-> "Researchers",
     USER |-> "User", VENDOR |-> "Vendor"]

\* A lookup that gives the first member whatever the description is.
SetContentType_first(desc) == "AUTHORITY_MMS"

\* SetContentType(desc): the member whose value is desc.
SetContentType(desc) ==
    CHOOSE member \in DOMAIN SetContentTypeMembers : SetContentTypeMembers[member] = desc

\* The APIResponse that models/sets.py imports (the package's alma_api_client
\* module): the body is decoded as JSON whatever the Content-Type says.
LegacyAPIResponse_api_data(response) ==
    IF JsonDecodes(response) THEN response.body.doc ELSE EmptyDict

\* Set._get_set_content_type: SetContentType(desc) raises ValueError for a
\* description that is no value of the enumeration.
SetContentTypeKnown(api_data) ==
    LET desc == Get(Get(api_data, "content", EmptyDict), "desc", JNone)
    IN desc.t = "str" /\ desc.v \in SetContentTypes

\* A constructor that starts the Set with an empty members attribute.
Set_withMembers(response) ==
    LET api_data == LegacyAPIResponse_api_data(response)
        member_info == Get(api_data, "number_of_members", EmptyDict)
    IN [name |-> Get(api_data, "name", JStr("")).v,
        set_type |-> SetContentType(Get(Get(api_data, "content", EmptyDict), "desc", JNone).v),
        number_of_members |-> Get(member_info, "value", JInt(0)).v,
        members_api |-> Get(member_info, "link", JStr("")).v,
        members |-> <<>>]

\* Set.__init__ with a response: the attributes _create_from_api_response sets.
\* There is no members attribute yet.
SetFromResponse(response) ==
    LET api_data == LegacyAPIResponse_api_data(response)
        member_info == Get(api_data, "number_of_members", EmptyDict)
    IN [name |-> Get(api_data, "name", JStr("")).v,
        set_type |-> SetContentType(Get(Get(api_data, "content", EmptyDict), "desc", JNone).v),
        number_of_members |-> Get(member_info, "value", JInt(0)).v,
        members_api |-> Get(member_info, "link", JStr("")).v]

\* Set.add_members
add_members(set, new_members) ==
    [k \in DOMAIN set \cup {"members"} |->
        IF k = "members" THEN new_members ELSE set[k]]

\* SetMember.__init__ calls member_data.get(...) when member_data is truthy:
\* AttributeError unless member_data is a dict.
SetMemberRaises(member_data) ==
    Truthy(member_data) /\ member_data.t # "dict"

\* SetMember.__init__ and _create_from_member_data: the attributes of the object.
SetMember(member_data) ==
    IF Truthy(member_data)
    THEN [id |-> Get(member_data, "id", JStr("")).v,
          description |-> Get(member_data, "description", JStr("")).v,
          link |-> Get(member_data, "link", JStr("")).v]
    ELSE <<>>

-----------------------------------------------------------------------------
(* The server's side of a set: count members, served in pages of at most   *)
(* cap; a server with bare set answers a page of one member with the bare  *)
(* object instead of a one-element array.                                  *)

\* limit = 100 in get_set
Limit == 100

Counts == {0, 1, 2, Limit + 1, MaxMembers}

Servers ==
    [count : Counts, cap : {Limit, ShortCap}, bare : BOOLEAN, faults : {0}]

ServerMember(i) ==
    JDict([id |-> JStr(ToString(i)),
           description |-> JStr("member"),
           link |-> JStr(ToString(i))])

\* The members at positions off .. min(off + lim, count) - 1 (from 0).
ServerSlice(srv, off, lim) ==
    LET n == Min(Min(lim, srv.cap), srv.count - off)
    IN [i \in 1..(IF n > 0 THEN n ELSE 0) |-> ServerMember(off + i)]

PageDoc(srv, off, lim) ==
    LET slice == ServerSlice(srv, off, lim)
    IN IF Len(slice) = 0
       THEN JDict([total_record_count |-> JInt(srv.count)])
       ELSE JDict([total_record_count |-> JInt(srv.count),
                   member |-> IF Len(slice) = 1 /\ srv.bare
                              THEN slice[1] ELSE JList(slice)])

PageResponses(srv, off, lim) ==
    { JsonResponse(200, PageDoc(srv, off, lim)) }
    \cup (IF srv.faults < MaxFaults THEN ErrorResponses ELSE {})

SetDoc(declared, desc) ==
    JDict([id |-> JStr("1"),
           name |-> JStr("a set"),
           content |-> JDict([value |-> JStr("ITEM"), desc |-> JStr(desc)]),
           number_of_members |-> JDict([value |-> JInt(declared),
                                        link |-> JStr("members_api")])])

\* A set description whose content has no desc.
SetDocNoDesc ==
    JDict([id |-> JStr("1"),
           name |-> JStr("a set"),
           content |-> JDict([value |-> JStr("ITEM")]),
           number_of_members |-> JDict([value |-> JInt(1),
                                        link |-> JStr("members_api")])])

SetResponses ==
    { JsonResponse(200, SetDoc(d, "Physical items")) : d \in Counts }
    \cup { JsonResponse(200, SetDoc(1, desc)) : desc \in SetContentTypes }
    \cup { JsonResponse(200, SetDoc(1, "Unheard of")),
           JsonResponse(200, SetDoc(1, "physical items")),
           JsonResponse(200, SetDoc(1, "ITEM")),
           JsonResponse(200, SetDocNoDesc),
           JsonResponse(200, JDict([name |-> JStr("a set")])),
           Response(200, [ContentType |-> CtJson], EmptyBody) }
    \cup ErrorResponses

-----------------------------------------------------------------------------
(* get_set                                                                 *)

\* Line 577: the test of the while loop.
MorePages(got, set) == Len(got) < set.number_of_members

\* Line 585
NewMembers(response) ==
    Get(APIResponse(response).api_data, "member", EmptyList)

\* A loop that forgets to advance the offset.
AdvanceOffset_stuck(off, new_members) == off

\* A loop that advances the offset by the page size it asked for.
AdvanceOffset_byLimit(off, new_members) == off + Limit

\* Line 586
AdvanceOffset(off, new_members) == off + PyLen(new_members)

\* Lines 587-588: SetMember raises at the first item that is no dict.
AppendRaises(items) ==
    \E i \in 1..Len(items) : SetMemberRaises(items[i])

\* Lines 587-588: the members appended before the loop ends or SetMember raises.
AppendMembers(got, items) ==
    LET bad == { i \in 1..Len(items) : SetMemberRaises(items[i]) }
        n == IF bad = {} THEN Len(items)
             ELSE (CHOOSE i \in bad : \A k \in bad : i <= k) - 1
    IN got \o [i \in 1..n |-> SetMember(items[i])]

\* Lines 567-576 and 590-593: the set-description request.  With
\* get_all_members false the members are attached at once.
GetSetCall ==
    /\ pc = "idle"
    /\ op' = "get_set"
    /\ reqLog' = Logged(reqLog, Request("get", "set", NoParams))
    /\ \E ga \in BOOLEAN : \E srv \in Servers : \E r \in SetResponses :
        /\ get_all' = ga
        /\ server' = srv
        /\ api_response' = r
        /\ IF ~ResponseOk(r)
           THEN /\ result' = RaiseAPIError(r, "Error retrieving set")
                /\ pc' = "raised"
                /\ UNCHANGED <<alma_set, addCalls>>
           ELSE IF ~SetContentTypeKnown(LegacyAPIResponse_api_data(r))
           THEN /\ result' = Raise("ValueError")
                /\ pc' = "raised"
                /\ UNCHANGED <<alma_set, addCalls>>
           ELSE IF ga
           THEN /\ alma_set' = SetFromResponse(r)
                /\ pc' = "gs_loop"
                /\ UNCHANGED <<result, addCalls>>
           ELSE /\ alma_set' = add_members(SetFromResponse(r), <<>>)
                /\ addCalls' = addCalls + 1
                /\ result' = Return(alma_set')
                /\ pc' = "returned"
    /\ members' = <<>>
    /\ offset' = 0
    /\ UNCHANGED OtherThanSet

\* Line 577: the test of the while loop holds and the body is entered.
GetSetTest ==
    /\ pc = "gs_loop"
    /\ MorePages(members, alma_set)
    /\ pc' = "gs_page"
    /\ UNCHANGED <<op, reqLog, api_response, result, setVars, OtherThanSet>>

\* Lines 578-588: the body of the while loop, a member-page request and
\* what is done with its response.
GetSetPage ==
    /\ pc = "gs_page"
    /\ reqLog' = Logged(reqLog, Request("get", alma_set.members_api,
                                        [offset |-> offset, limit |-> Limit]))
    /\ \E r \in PageResponses(server, offset, Limit) :
       \E new_members \in {NewMembers(r)} :
           /\ api_response' = r
           /\ server' = IF ResponseOk(r) THEN server
                        ELSE [server EXCEPT !.faults = @ + 1]
           /\ offset' = AdvanceOffset(offset, new_members)
           /\ members' = AppendMembers(members, PyIter(new_members))
           /\ IF AppendRaises(PyIter(new_members))
              THEN /\ result' = Raise("AttributeError")
                   /\ pc' = "raised"
              ELSE /\ pc' = "gs_loop"
                   /\ UNCHANGED result
    /\ UNCHANGED <<op, get_all, alma_set, addCalls, OtherThanSet>>

\* Lines 590-591, once the while loop has ended.
GetSetReturn ==
    /\ pc = "gs_loop"
    /\ ~MorePages(members, alma_set)
    /\ alma_set' = add_members(alma_set, members)
    /\ addCalls' = addCalls + 1
    /\ result' = Return(alma_set')
    /\ pc' = "returned"
    /\ UNCHANGED <<op, reqLog, api_response, server, get_all, members, offset,
                   OtherThanSet>>

-----------------------------------------------------------------------------
(* The facade methods that make one request and wrap its response in an    *)
(* APIResponse: the HTTP method and the message of the APIError of each.   *)

EnvelopeMethods ==
    [ create_item |-> [method |-> "post", message |-> "Error creating item."],
      get_items |-> [method |-> "get", message |-> "Error retrieving item."],
      get_integration_profiles |->
          [method |-> "get", message |-> "Error retrieving integration profiles."],
      get_jobs |-> [method |-> "get", message |-> "Error retrieving jobs."],
      run_job |-> [method |-> "post", message |-> "Error running job."],
      get_fees |-> [method |-> "get", message |-> "Error retrieving fees."],
      get_analytics_report |->
          [method |-> "get", message |-> "Error retrieving analytics report."],
      get_analytics_path |->
          [method |-> "get", message |-> "Error retrieving analytics path."],
      get_vendors |-> [method |-> "get", message |-> "Error retrieving vendors."],
      get_vendor |-> [method |-> "get", message |-> "Error retrieving vendor."],
      create_user |-> [method |-> "post", message |-> "Error creating user."],
      delete_user |-> [method |-> "delete", message |-> "Error deleting user."],
      get_user |-> [method |-> "get", message |-> "Error retrieving user."],
      update_user |-> [method |-> "put", message |-> "Error updating user."],
      get_general_configuration |->
          [method |-> "get", message |-> "Error retrieving general configuration."],
      get_code_tables |-> [method |-> "get", message |-> "Error retrieving code tables."],
      get_code_table |-> [method |-> "get", message |-> "Error retrieving code table."],
      get_mapping_tables |->
          [method |-> "get", message |-> "Error retrieving mapping tables."],
      get_mapping_table |->
          [method |-> "get", message |-> "Error retrieving mapping table."],
      get_libraries |-> [method |-> "get", message |-> "Error retrieving libraries."],
      get_library |-> [method |-> "get", message |-> "Error retrieving library."],
      get_circulation_desks |->
          [method |-> "get", message |-> "Error retrieving circulation desks."],
      get_funds |-> [method |-> "get", message |-> "Error retrieving funds."],
      get_fund |-> [method |-> "get", message |-> "Error retrieving fund."],
      update_fund |-> [method |-> "put", message |-> "Error updating fund."],
      delete_bib_record |->
          [method |-> "delete", message |-> "Error deleting bib record."],
      delete_holding_record |->
          [method |-> "delete", message |-> "Error deleting holding record."] ]

\* What the vendor may answer to such a request.
EnvelopeResponses ==
    { JsonResponse(200, JDict([foo |-> JStr("bar")])),
      Response(204, <<>>, EmptyBody) }
    \cup ErrorResponses

\* if api_response.ok: return APIResponse(api_response)
\* else: raise APIError(api_response, message)
EnvelopeOrError(response, message) ==
    IF ResponseOk(response)
    THEN Return(APIResponse(response))
    ELSE RaiseAPIError(response, message)

\* create_item, get_items, ..., delete_holding_record: the whole method.
EnvelopeCall ==
    /\ pc = "idle"
    /\ \E m \in DOMAIN EnvelopeMethods : \E r \in EnvelopeResponses :
        /\ op' = m
        /\ reqLog' = Logged(reqLog, Request(EnvelopeMethods[m].method, m, NoParams))
        /\ api_response' = r
        /\ result' = EnvelopeOrError(r, EnvelopeMethods[m].message)
        /\ pc' = IF result'.kind = "return" THEN "returned" ELSE "raised"
    /\ UNCHANGED OtherThanCall

\* The arguments a caller may pass to _call_api.
MethodArgs == {"get", "GET", "Post", "DeLeTe", "put", "PUT", "patch", "HEAD", ""}
FormatArgs == {"json", "xml", "JSON", "yaml", ""}

NoArgs == [method |-> "", data_format |-> ""]

\* _call_api(method, api, data_format=...) called directly.
CallApi ==
    /\ pc = "idle"
    /\ \E method \in MethodArgs, data_format \in FormatArgs, r \in EnvelopeResponses :
        /\ args' = [method |-> method, data_format |-> data_format]
        /\ IF CallApiError(method, data_format) # <<>>
           THEN /\ result' = [kind |-> "raise", exc |-> "ValueError",
                              message |-> CallApiError(method, data_format)]
                /\ UNCHANGED <<reqLog, api_response>>
                /\ pc' = "raised"
           ELSE /\ reqLog' = Logged(reqLog, Request(method, "/almaws/v1/conf/test", NoParams))
                /\ api_response' = r
                /\ result' = Return(r)
                /\ pc' = "returned"
    /\ op' = "_call_api"
    /\ UNCHANGED OtherThanArgs

-----------------------------------------------------------------------------
(* XML.  A document is the tree of its root element; the bytes of a        *)
(* well-formed document are identified with that tree.  Texts are the      *)
(* vendor's tokens: no text has leading or trailing white space, and       *)
(* there is no white space between elements.                               *)

Elem(tag, attrs, text, children) ==
    [tag |-> tag, attrs |-> attrs, text |-> text, children |-> children]

Leaf(tag, text) == Elem(tag, <<>>, text, <<>>)

\* xmltodict's key of an XML attribute (attr_prefix "@") and back.
AttrKey ==
    [desc |-> "@desc", link |-> "@link", tag |-> "@tag", ind1 |-> "@ind1",
     ind2 |-> "@ind2", code |-> "@code", name |-> "@name", xmlns |-> "@xmlns"]
    @@ ("saw-sql:columnHeading" :> "@saw-sql:columnHeading")
AttrOfKey ==
    [k \in { AttrKey[a] : a \in DOMAIN AttrKey } |->
        CHOOSE a \in DOMAIN AttrKey : AttrKey[a] = k]

\* ET: element.find(tag), the first child with that tag; <<>> for None.
Find(element, tag) ==
    LET hits == { i \in DOMAIN element.children : element.children[i].tag = tag }
    IN IF hits = {} THEN <<>>
       ELSE <<element.children[CHOOSE i \in hits : \A j \in hits : i <= j]>>

\* ET: the truth value of an element is whether it has children.
ElementTruthy(found) == found # <<>> /\ Len(found[1].children) > 0

\* xmltodict.parse: the value of an element.  Repeated children become a list.
RECURSIVE XValue(_)
XValue(e) ==
    LET tags == { e.children[i].tag : i \in DOMAIN e.children }
        same(tg) == SelectSeq(e.children, LAMBDA c : c.tag = tg)
        ofTag(tg) == IF Len(same(tg)) = 1 THEN XValue(same(tg)[1])
                     ELSE JList([i \in 1..Len(same(tg)) |-> XValue(same(tg)[i])])
        atKeys == { AttrKey[a] : a \in DOMAIN e.attrs }
        keys == atKeys \cup tags \cup (IF e.text # "" THEN {"#text"} ELSE {})
    IN IF DOMAIN e.attrs = {} /\ e.children = <<>>
       THEN IF e.text = "" THEN JNone ELSE JStr(e.text)
       ELSE JDict([k \in keys |->
                IF k \in atKeys THEN JStr(e.attrs[AttrOfKey[k]])
                ELSE IF k = "#text" THEN JStr(e.text)
                ELSE ofTag(k)])

\* xmltodict.parse of a document: one key, the tag of the root.
XmlToDict(root) == JDict([k \in {root.tag} |-> XValue(root)])

RECURSIVE Flatten(_)
Flatten(seqs) == IF seqs = <<>> THEN <<>> ELSE Head(seqs) \o Flatten(Tail(seqs))

\* xmltodict.unparse: the elements written for one key of a dict.
RECURSIVE XEmit(_, _)
XEmit(key, value) ==
    CASE value.t = "list" ->
            Flatten([i \in 1..Len(value.v) |-> XEmit(key, value.v[i])])
      [] value.t = "dict" ->
            LET atKeys == { k \in DOMAIN value.v : k \in DOMAIN AttrOfKey }
                kids == SetToSeq(DOMAIN value.v \ (atKeys \cup {"#text"}))
            IN << Elem(key,
                       [a \in { AttrOfKey[k] : k \in atKeys } |-> value.v[AttrKey[a]].v],
                       IF "#text" \in DOMAIN value.v THEN value.v["#text"].v ELSE "",
                       Flatten([i \in 1..Len(kids) |-> XEmit(kids[i], value.v[kids[i]])])) >>
      [] value.t = "none" -> << Leaf(key, "") >>
      [] OTHER -> << Leaf(key, value.v) >>

-----------------------------------------------------------------------------
(* models/api.py: the envelopes as objects of their own, built from any    *)
(* raw response, and their properties.                                     *)

\* APIError.__init__, lines 71-72 and 77-80: xmltodict.parse raises ExpatError
\* on bytes that are no XML document.
APIErrorRaises(response) ==
    /\ content_type(response) = "xml"
    /\ ~XmlParses(Get(APIResponse_api_data(response), "content", JBytes(EmptyBody)))

\* An update that keeps the whole parsed document.
APIError_api_data_whole(response) ==
    IF content_type(response) = "xml"
    THEN XmlToDict(APIResponse_api_data(response).v.content.v.doc)
    ELSE APIResponse_api_data(response)

\* APIError.__init__: api_data after _update_api_data_from_xml
APIError_api_data(response) ==
    IF content_type(response) = "xml"
    THEN Get(XmlToDict(APIResponse_api_data(response).v.content.v.doc),
             "web_service_result", EmptyDict)
    ELSE APIResponse_api_data(response)

APIError(response, message) ==
    [response |-> response, api_data |-> APIError_api_data(response),
     message |-> message]

\* APIError.error_messages, lines 118-124.  x.get raises AttributeError when x
\* is no dict.
error_messages(api_data) ==
    IF api_data.t # "dict" THEN Raise("AttributeError")
    ELSE LET errorList == Get(api_data, "errorList", EmptyDict)
         IN IF errorList.t # "dict" THEN Raise("AttributeError")
            ELSE LET errors == Get(errorList, "error", JNone)
                 IN CASE errors.t = "list" ->
                            IF \E i \in DOMAIN errors.v : errors.v[i].t # "dict"
                            THEN Raise("AttributeError")
                            ELSE Return([i \in DOMAIN errors.v |->
                                     Get(errors.v[i], "errorMessage", JStr(""))])
                      [] errors.t = "dict" ->
                            Return(<<Get(errors, "errorMessage", JStr(""))>>)
                      [] OTHER -> Return(<<>>)

ErrorEntry(code, message) ==
    JDict([errorCode |-> JStr(code), errorMessage |-> JStr(message),
           trackingId |-> JStr("E01")])

ErrorListDoc(errorList) ==
    JDict([errorsExist |-> JStr("true"), errorList |-> errorList])

\* JSON documents a response may carry.
JsonDocs ==
    { JDict([foo |-> JStr("bar")]),
      ErrorDoc,
      ErrorListDoc(JDict([error |-> JList(<< ErrorEntry("60107", "Set not found: Set ID abc"),
                                             JDict([errorCode |-> JStr("401")]),
                                             ErrorEntry("60107", "Set not found: Set ID abc"),
                                             ErrorEntry("402203", "Not valid.") >>)])),
      ErrorListDoc(JDict([error |-> JList(<<>>)])),
      ErrorListDoc(JDict([error |-> JDict([errorCode |-> JStr("401")])])),
      ErrorListDoc(JDict([error |-> JNone])),
      ErrorListDoc(EmptyDict),
      ErrorListDoc(JNone) }

XmlErrorEntry(code, message) ==
    Elem("error", <<>>, "",
         << Leaf("errorCode", code), Leaf("errorMessage", message),
            Leaf("trackingId", "E01") >>)

XmlErrorListDoc(entries) ==
    Elem("web_service_result", <<>>, "",
         << Leaf("errorsExist", "true"), Elem("errorList", <<>>, "", entries) >>)

\* XML documents a response may carry.
XmlDocs ==
    { XmlErrorListDoc(<< XmlErrorEntry("402203", "Input parameters mmsId foobar is not valid.") >>),
      XmlErrorListDoc(<< XmlErrorEntry("402203", "Not valid."),
                         XmlErrorEntry("401", "Not found.") >>),
      XmlErrorListDoc(<<>>),
      Elem("web_service_result", <<>>, "", <<>>),
      Elem("bib", <<>>, "", << Leaf("mms_id", "991") >>) }

Bodies ==
    { JsonBody(d) : d \in JsonDocs } \cup { XmlBody(x) : x \in XmlDocs }
    \cup { EmptyBody, GarbageBody }

\* Content-Type header values.
ContentTypes ==
    { CtJson, CtXml,
      <<"application/", "json">>,
      <<"application/", "json", ";charset=utf-8">>,
      <<"application/", "JSON", ";charset=UTF-8">>,
      <<"application/", "vnd.api+json", ";charset=UTF-8">>,
      <<"application/", "json", ";v=1", ";charset=UTF-8">>,
      <<"application/", "json", ";charset=UTF-8", ";v=1">>,
      <<"application/", "json", ";charset=UTF-8", ";charset=UTF-8">>,
      <<"x-", "application/", "json", ";charset=UTF-8">>,
      <<"text/", "html", ";charset=UTF-8">> }

\* X-Exl-Api-Remaining header values: strings of at most MaxHeaderLen of
\* these characters, and the value of the test.
HeaderChars == {"0", "1", "9", "-", "+", "x"}

CallsRemainingValues ==
    UNION { [1..n -> HeaderChars] : n \in 0..MaxHeaderLen }
    \cup { <<"1", "2", "3", "4", "5">> }

\* Status codes: the ends of each class, and codes outside every class.
StatusCodes == {100, 199, 200, 399, 400, 499, 500, 599, 600}

\* The raw responses an envelope may be built from.
RawResponses ==
    { JsonResponse(code, JDict([foo |-> JStr("bar")])) : code \in StatusCodes }
    \cup
    { Response(code, h, b) :
        code \in {200, 400},
        h \in { [ContentType |-> ct] : ct \in ContentTypes } \cup { <<>> },
        b \in Bodies }
    \cup { Response(200, [ContentType |-> CtJson, XExlApiRemaining |-> v],
                    JsonBody(JDict([foo |-> JStr("bar")]))) :
            v \in CallsRemainingValues }

\* APIResponse(response)
APIResponseNew ==
    /\ pc = "idle"
    /\ \E r \in RawResponses :
        /\ api_response' = r
        /\ result' = Return(APIResponse(r))
    /\ op' = "APIResponse"
    /\ pc' = "returned"
    /\ UNCHANGED <<reqLog, OtherThanCall>>

\* APIError(response, message)
APIErrorNew ==
    /\ pc = "idle"
    /\ \E r \in RawResponses :
        /\ api_response' = r
        /\ result' = IF APIErrorRaises(r) THEN Raise("ExpatError")
                     ELSE Return(APIError(r, "Error."))
    /\ op' = "APIError"
    /\ pc' = IF result'.kind = "return" THEN "returned" ELSE "raised"
    /\ UNCHANGED <<reqLog, OtherThanCall>>

HoldsEnvelope == pc = "returned" /\ op \in {"APIResponse", "APIError"}

Read(property, outcome) == [property |-> property, outcome |-> outcome]

\* The caller reads envelope.api_calls_remaining.
ReadApiCallsRemaining ==
    /\ HoldsEnvelope
    /\ read = NoResult
    /\ read' = Read("api_calls_remaining", Return(api_calls_remaining(result.value.response)))
    /\ UNCHANGED <<callVars, OtherThanEnv>>

\* The caller reads envelope.content_type.
ReadContentType ==
    /\ HoldsEnvelope
    /\ read = NoResult
    /\ read' = Read("content_type", Return(content_type(result.value.response)))
    /\ UNCHANGED <<callVars, OtherThanEnv>>

\* The caller reads error.error_messages.
ReadErrorMessages ==
    /\ HoldsEnvelope
    /\ op = "APIError"
    /\ read = NoResult
    /\ read' = Read("error_messages", error_messages(result.value.api_data))
    /\ UNCHANGED <<callVars, OtherThanEnv>>

\* envelope.raise_for_status(): requests raises HTTPError, which carries the
\* response, for a client error (4xx) or a server error (5xx).
raise_for_status(response) ==
    IF (400 <= response.status_code /\ response.status_code < 500)
       \/ (500 <= response.status_code /\ response.status_code < 600)
    THEN [kind |-> "raise", exc |-> "HTTPError", status_code |-> response.status_code]
    ELSE Return(JNone)

\* The caller reads envelope.ok.
ReadOk ==
    /\ HoldsEnvelope
    /\ read = NoResult
    /\ read' = Read("ok", Return(ResponseOk(result.value.response)))
    /\ UNCHANGED <<callVars, OtherThanEnv>>

\* The caller calls envelope.raise_for_status().
CallRaiseForStatus ==
    /\ HoldsEnvelope
    /\ read = NoResult
    /\ read' = Read("raise_for_status", raise_for_status(result.value.response))
    /\ UNCHANGED <<callVars, OtherThanEnv>>

-----------------------------------------------------------------------------
(* pymarc: a Record is a leader and fields; a control field has data, a    *)
(* data field has two indicators and subfields.                            *)

DefaultLeader == "          22        4500"

PyRecord(leader, fields) == [t |-> "Record", leader |-> leader, fields |-> fields]

AttrOr(e, name, default) == IF name \in DOMAIN e.attrs THEN e.attrs[name] ELSE default

\* pymarc.parse_xml_to_array on a <record> element: the one Record it holds.
MarcField(e) ==
    IF e.tag = "controlfield"
    THEN [control |-> TRUE, tag |-> AttrOr(e, "tag", ""), data |-> e.text]
    ELSE [control |-> FALSE, tag |-> AttrOr(e, "tag", ""),
          ind1 |-> AttrOr(e, "ind1", " "), ind2 |-> AttrOr(e, "ind2", " "),
          subfields |-> LET subs == SelectSeq(e.children, LAMBDA c : c.tag = "subfield")
                        IN [i \in 1..Len(subs) |->
                               [code |-> AttrOr(subs[i], "code", ""), value |-> subs[i].text]]]

ParseMarcXml(record) ==
    LET leaders == SelectSeq(record.children, LAMBDA c : c.tag = "leader")
        fields == SelectSeq(record.children,
                            LAMBDA c : c.tag \in {"controlfield", "datafield"})
    IN PyRecord(IF leaders = <<>> THEN DefaultLeader ELSE leaders[Len(leaders)].text,
                [i \in 1..Len(fields) |-> MarcField(fields[i])])

\* pymarc.record_to_xml_node
FieldToXml(f) ==
    IF f.control
    THEN Elem("controlfield", [tag |-> f.tag], f.data, <<>>)
    ELSE Elem("datafield", [ind1 |-> f.ind1, ind2 |-> f.ind2, tag |-> f.tag], "",
              [i \in 1..Len(f.subfields) |->
                  Elem("subfield", [code |-> f.subfields[i].code],
                       f.subfields[i].value, <<>>)])

record_to_xml_node(record) ==
    Elem("record", <<>>, "",
         <<Leaf("leader", record.leader)>>
         \o [i \in 1..Len(record.fields) |-> FieldToXml(record.fields[i])])

-----------------------------------------------------------------------------
(* models/marc_records.py                                                  *)

RecordClasses == {"AuthorityRecord", "BibRecord", "HoldingRecord"}

\* __slots__ of the subclasses
Slots(cls) ==
    CASE cls = "AuthorityRecord" -> <<"cataloging_level", "record_format", "vocabulary">>
      [] cls = "BibRecord" -> <<"brief_level", "cataloging_level", "record_format",
                                "suppress_from_publishing">>
      [] cls = "HoldingRecord" -> <<"suppress_from_publishing">>

\* self._record_type as the subclasses' __init__ sets it
RecordType(cls) ==
    CASE cls = "AuthorityRecord" -> "authority"
      [] cls = "BibRecord" -> "bib"
      [] cls = "HoldingRecord" -> "holding"

SlotSet(cls) == { Slots(cls)[i] : i \in DOMAIN Slots(cls) }

\* An object: its class and the attributes it has.
Object(cls, attrs) == [cls |-> cls, attrs |-> attrs]
HasAttr(obj, name) == name \in DOMAIN obj.attrs
GetAttr(obj, name, default) == IF HasAttr(obj, name) THEN obj.attrs[name] ELSE default
SetAttr(obj, name, value) ==
    [obj EXCEPT !.attrs = [k \in DOMAIN obj.attrs \cup {name} |->
                              IF k = name THEN value ELSE obj.attrs[k]]]

\* _create_from_api_response, line 27
ContentOf(response) ==
    Get(APIResponse(response).api_data, "content", JBytes(EmptyBody))

\* _get_pymarc_record_from_xml
PymarcRecordFromXml(root) ==
    LET record == Find(root, "record")
    IN IF ElementTruthy(record) THEN ParseMarcXml(record[1]) ELSE JNone

\* A constructor that sets every child of the root as an attribute.
NamedAttributes_all(cls, attributes) == attributes.v

\* _set_attributes, lines 79-84: the slots found among the children of the root
NamedAttributes(cls, attributes) ==
    [k \in SlotSet(cls) \cap DOMAIN attributes.v |-> attributes.v[k]]

\* The constructor with a response fails with ET.ParseError when the content
\* is no XML document, and with AttributeError in _set_attributes (line 82)
\* when the root has neither children nor XML attributes.
RecordInitError(response) ==
    IF ~XmlParses(ContentOf(response)) THEN "ParseError"
    ELSE IF XValue(ContentOf(response).v.doc).t # "dict" THEN "AttributeError"
    ELSE ""

\* A constructor that keeps the record type _set_attributes read from the XML.
RecordTypeAfterInit_fromXml(cls, root_tag) == root_tag

\* _set_attributes sets _record_type to the name of the root element (line
\* 77); the subclass's __init__ then assigns its own (lines 136, 150, 165).
RecordTypeAfterInit(cls, root_tag) == RecordType(cls)

\* AuthorityRecord / BibRecord / HoldingRecord (api_response)
RecordFromResponse(cls, response) ==
    LET root == ContentOf(response).v.doc
        attributes == Get(XmlToDict(root), root.tag, EmptyDict)
        named == NamedAttributes(cls, attributes)
        fixed == [marc_record |-> PymarcRecordFromXml(root),
                  _all_attributes |-> attributes,
                  _record_type |-> JStr(RecordTypeAfterInit(cls, root.tag))]
    IN Object(cls, [k \in DOMAIN named \cup DOMAIN fixed |->
                       IF k \in DOMAIN fixed THEN fixed[k] ELSE named[k]])

\* AuthorityRecord / BibRecord / HoldingRecord ()
RecordWithoutResponse(cls) ==
    Object(cls, [_record_type |-> JStr(RecordType(cls))])

\* The properties of the subclasses that read _all_attributes, and their keys.
PassthroughKeys(cls) ==
    CASE cls = "BibRecord" -> [bib_id |-> "mms_id"]
      [] cls = "HoldingRecord" -> [created_by |-> "created_by", holding_id |-> "holding_id"]
      [] cls = "AuthorityRecord" -> <<>>

\* bib_id, created_by, holding_id: self._all_attributes.get(key, ""), which is
\* AttributeError on an object that has no _all_attributes.
RecordProperty(obj, property) ==
    IF ~HasAttr(obj, "_all_attributes") THEN Raise("AttributeError")
    ELSE Return(Get(obj.attrs["_all_attributes"], PassthroughKeys(obj.cls)[property], JStr("")))

\* alma_xml, line 108: record_to_xml_node fails on a missing or None marc_record.
AlmaXmlRaises(obj) == GetAttr(obj, "marc_record", JNone).t # "Record"

\* A serializer that reads no attribute of the object.
SlotValue_blank(obj, key) == JStr("")

\* A serializer that writes the attributes as they were fetched.
SlotValue_fetched(obj, key) ==
    Get(GetAttr(obj, "_all_attributes", EmptyDict), key, JStr(""))

\* alma_xml, line 101
SlotValue(obj, key) == GetAttr(obj, key, JStr(""))

\* A serializer that writes only the attributes the object has.
AttributesXml_setOnly(obj) ==
    LET slots == SelectSeq(Slots(obj.cls), LAMBDA k : HasAttr(obj, k))
    IN Elem(obj.attrs["_record_type"].v, <<>>, "",
            Flatten([i \in 1..Len(slots) |-> XEmit(slots[i], obj.attrs[slots[i]])]))

\* alma_xml, lines 101-105: the document xmltodict.unparse writes
AttributesXml(obj) ==
    LET slots == Slots(obj.cls)
    IN Elem(obj.attrs["_record_type"].v, <<>>, "",
            Flatten([i \in 1..Len(slots) |-> XEmit(slots[i], SlotValue(obj, slots[i]))]))

\* A serializer that leaves the MARC record out.
alma_xml_attributesOnly(obj) == AttributesXml(obj)

\* alma_xml
alma_xml(obj) ==
    LET xml_element == AttributesXml(obj)
    IN [xml_element EXCEPT !.children =
           Append(@, record_to_xml_node(obj.attrs["marc_record"]))]

-----------------------------------------------------------------------------
(* The record endpoints: the wrappers the vendor may send, and the facade  *)
(* methods that fetch, create and update records.                          *)

MarcXml1 ==
    Elem("record", <<>>, "",
         << Leaf("leader", "00000nam a2200000 a 4500"),
            Elem("controlfield", [tag |-> "001"], "9992524713606533", <<>>),
            Elem("datafield", [ind1 |-> "1", ind2 |-> "0", tag |-> "245"], "",
                 << Elem("subfield", [code |-> "a"], "Title", <<>>),
                    Elem("subfield", [code |-> "c"], "Author", <<>>) >>) >>)

MarcXml2 ==
    Elem("record", <<>>, "",
         << Leaf("leader", "00000nx  a22000001n 4500"),
            Elem("datafield", [ind1 |-> "0", ind2 |-> " ", tag |-> "852"], "",
                 << Elem("subfield", [code |-> "b"], "main", <<>>) >>) >>)

\* A <record> element without children.
MarcXmlEmpty == Elem("record", <<>>, "", <<>>)

RecordParts ==
    { <<>>, <<MarcXml1>>, <<MarcXml2>>, <<MarcXmlEmpty>>, <<MarcXml1, MarcXml2>> }

WrapperHeads ==
    { Elem("bib", <<>>, "",
           << Leaf("mms_id", "9992524713606533"),
              Leaf("record_format", "marc21"),
              Leaf("suppress_from_publishing", "true"),
              Elem("cataloging_level", [desc |-> "Default Level"], "00", <<>>),
              Elem("brief_level", [desc |-> "01"], "01", <<>>) >>),
      Elem("bib", <<>>, "",
           << Leaf("mms_id", "991"),
              Leaf("record_format", "") >>),
      Elem("holding", <<>>, "",
           << Leaf("holding_id", "22447985240006533"),
              Leaf("created_by", "import"),
              Leaf("suppress_from_publishing", "false") >>),
      Elem("authority", <<>>, "",
           << Leaf("mms_id", "981"),
              Elem("cataloging_level", [desc |-> "Default Level"], "00", <<>>),
              Leaf("record_format", "marc21"),
              Elem("vocabulary", [desc |-> "LC Names"], "LCNAMES", <<>>) >>) }

Wrappers ==
    { [h EXCEPT !.children = @ \o part] : h \in WrapperHeads, part \in RecordParts }
    \cup { Elem("bib", <<>>, "", <<>>) }

XmlResponse(code, body) == Response(code, [ContentType |-> CtXml], body)

XmlErrorDoc ==
    Elem("web_service_result", <<>>, "",
         << Leaf("errorsExist", "true"),
            Elem("errorList", <<>>, "",
                 << Elem("error", <<>>, "",
                         << Leaf("errorCode", "402203"),
                            Leaf("errorMessage", "Input parameters mmsId foobar is not valid."),
                            Leaf("trackingId", "E01") >>) >>) >>)

\* What the vendor may answer to a GET of a record.
RecordResponses ==
    { XmlResponse(200, XmlBody(w)) : w \in Wrappers }
    \cup { XmlResponse(200, EmptyBody), XmlResponse(400, XmlBody(XmlErrorDoc)) }
    \cup ErrorResponses

\* What the vendor may answer to a POST or PUT of a record.
SendResponses ==
    { XmlResponse(200, XmlBody(w)) :
        w \in { h \in Wrappers : Len(h.children) = 4 /\ h.children[4].tag = "record" } }
    \cup { XmlResponse(200, EmptyBody), XmlResponse(400, XmlBody(XmlErrorDoc)) }
    \cup ErrorResponses

RecordMethods ==
    [ get_authority_record |->
          [cls |-> "AuthorityRecord", method |-> "get",
           message |-> "Error retrieving authority record."],
      get_bib_record |->
          [cls |-> "BibRecord", method |-> "get",
           message |-> "Error retrieving bib record."],
      get_holding_record |->
          [cls |-> "HoldingRecord", method |-> "get",
           message |-> "Error retrieving holding record."],
      create_bib_record |->
          [cls |-> "BibRecord", method |-> "post",
           message |-> "Error creating bib record."],
      update_bib_record |->
          [cls |-> "BibRecord", method |-> "put",
           message |-> "Error updating bib record."],
      create_holding_record |->
          [cls |-> "HoldingRecord", method |-> "post",
           message |-> "Error creating holding record."],
      update_holding_record |->
          [cls |-> "HoldingRecord", method |-> "put",
           message |-> "Error updating holding record."] ]

GetRecordMethods == { m \in DOMAIN RecordMethods : RecordMethods[m].method = "get" }
SendRecordMethods == DOMAIN RecordMethods \ GetRecordMethods

NoRecord == [cls |-> "none"]
NoWrapper == [tag |-> "none"]

\* if api_response.ok: return <Record class>(api_response)
\* else: raise APIError(api_response, message)
RecordOrError(cls, response, message) ==
    IF ~ResponseOk(response) THEN RaiseAPIError(response, message)
    ELSE IF RecordInitError(response) # "" THEN Raise(RecordInitError(response))
    ELSE Return(RecordFromResponse(cls, response))

\* get_authority_record, get_bib_record, get_holding_record: the whole method.
\* The caller keeps the record it is given.
RecordGet ==
    /\ pc = "idle"
    /\ \E m \in GetRecordMethods : \E r \in RecordResponses :
        /\ op' = m
        /\ reqLog' = Logged(reqLog, Request("get", m, NoParams))
        /\ api_response' = r
        /\ result' = RecordOrError(RecordMethods[m].cls, r, RecordMethods[m].message)
        /\ IF result'.kind = "return"
           THEN /\ pc' = "returned"
                /\ rec' = result'.value
                /\ wrapper' = r.body.doc
           ELSE /\ pc' = "raised"
                /\ UNCHANGED <<rec, wrapper>>
    /\ UNCHANGED <<xml_out, assigned, OtherThanMarc>>

\* The caller makes a record object without a response.
RecordNew ==
    /\ pc = "idle"
    /\ \E cls \in RecordClasses :
        /\ rec' = RecordWithoutResponse(cls)
        /\ result' = Return(rec')
    /\ op' = "new_record"
    /\ pc' = "returned"
    /\ UNCHANGED <<reqLog, api_response, xml_out, wrapper, assigned, OtherThanMarc>>

\* The values the caller assigns.
AssignValues(name) ==
    IF name = "marc_record"
    THEN { ParseMarcXml(MarcXml1), ParseMarcXml(MarcXml2), JNone }
    ELSE { JStr("false"), JStr("true") }

\* The caller assigns an attribute of the record it holds.
RecordAssign ==
    /\ pc = "returned"
    /\ rec # NoRecord
    /\ Cardinality(assigned) < MaxAssign
    /\ \E name \in (SlotSet(rec.cls) \cup {"marc_record"}) \ assigned :
       \E value \in AssignValues(name) :
        /\ rec' = SetAttr(rec, name, value)
        /\ assigned' = assigned \cup {name}
    /\ xml_out' = NoResult
    /\ UNCHANGED <<callVars, wrapper, OtherThanMarc>>

\* The caller reads rec.bib_id, rec.created_by or rec.holding_id.
RecordRead ==
    /\ pc = "returned"
    /\ rec # NoRecord
    /\ read = NoResult
    /\ \E property \in DOMAIN PassthroughKeys(rec.cls) :
        read' = Read(property, RecordProperty(rec, property))
    /\ UNCHANGED <<callVars, OtherThanEnv>>

\* A serializer that leaves the <record> element out when there is no MARC record.
AlmaXmlOrError_lenient(obj) ==
    [kind |-> "return",
     value |-> IF AlmaXmlRaises(obj) THEN AttributesXml(obj) ELSE alma_xml(obj),
     xml_declaration |-> FALSE]

\* ET.tostring(xml_element, encoding="utf8", method="xml", xml_declaration=...):
\* the bytes written, an XML declaration first if asked for.
ET_tostring(xml_element, xml_declaration) ==
    [kind |-> "return", value |-> xml_element, xml_declaration |-> xml_declaration]

\* The caller reads rec.alma_xml.
AlmaXmlOrError(obj) ==
    IF AlmaXmlRaises(obj) THEN Raise("AttributeError")
    ELSE ET_tostring(alma_xml(obj), FALSE)

RecordSerialize ==
    /\ pc = "returned"
    /\ rec # NoRecord
    /\ xml_out = NoResult
    /\ xml_out' = AlmaXmlOrError(rec)
    /\ UNCHANGED <<callVars, rec, wrapper, assigned, OtherThanMarc>>

\* update_holding_record, line 757: holding_record.holding_id reads
\* _all_attributes, which a record made without a response does not have.
SendRaises(m, obj) ==
    \/ m = "update_holding_record" /\ ~HasAttr(obj, "_all_attributes")
    \/ AlmaXmlRaises(obj)

\* create_bib_record, update_bib_record, create_holding_record,
\* update_holding_record with the record the caller holds: the whole method.
RecordSend ==
    /\ pc = "returned"
    /\ rec # NoRecord
    /\ \E m \in SendRecordMethods :
        /\ RecordMethods[m].cls = rec.cls
        /\ op' = m
        /\ IF SendRaises(m, rec)
           THEN /\ reqLog' = <<>>
                /\ api_response' = NoResponse
                /\ result' = Raise("AttributeError")
           ELSE /\ reqLog' = << [method |-> RecordMethods[m].method, api |-> m,
                                 parameters |-> NoParams, data |-> alma_xml(rec)] >>
                /\ \E r \in SendResponses :
                    /\ api_response' = r
                    /\ result' = RecordOrError(rec.cls, r, RecordMethods[m].message)
        /\ pc' = IF result'.kind = "return" THEN "sent" ELSE "raised"
    /\ xml_out' = NoResult
    /\ UNCHANGED <<rec, wrapper, assigned, OtherThanMarc>>

-----------------------------------------------------------------------------
(* clients/alma_analytics_client.py: AlmaAnalyticsClient.get_report.  The  *)
(* report comes as an XML document inside the JSON body, one page per      *)
(* request.                                                                *)

\* self.rows_per_fetch, line 21
rows_per_fetch == 1000

\* The settings of the client: report_path and filter, each unset ("") or set.
ReportSettings ==
    [report_path : {"", "/shared/UCLA/Reports/Titles"},
     filter : {"", "<sawx:expr/>"}]

\* Row k of the report: the generic column names, Column0 first.
ReportRow(k) ==
    Elem("Row", <<>>, "",
         << Leaf("Column0", "0"),
            Leaf("Column1", "Title " \o ToString(k)),
            Leaf("Column2", ToString(k)) >>)

ColumnElement(generic, heading) ==
    Elem("xsd:element", ("name" :> generic) @@ ("saw-sql:columnHeading" :> heading), "", <<>>)

\* The schema of the rowset, which names the columns.
ReportSchema ==
    Elem("xsd:schema", <<>>, "",
         << Elem("xsd:complexType", [name |-> "Row"], "",
                 << Elem("xsd:sequence", <<>>, "",
                         << ColumnElement("Column0", "0"),
                            ColumnElement("Column1", "Title"),
                            ColumnElement("Column2", "MMS Id") >>) >>) >>)

\* A report on the server: the number of rows of each page, which pages carry
\* a resumption token ("first", "all", "none") and whether the pages after the
\* first repeat the schema; next is the page the next request gets.
Reports ==
    { [sizes |-> sz, tokens |-> tk, schemas |-> sc, next |-> 1] :
        sz \in UNION { [1..n -> 0..2] : n \in 1..MaxPages },
        tk \in {"first", "all", "none"},
        sc \in BOOLEAN }

NoReport == [sizes |-> <<>>, tokens |-> "none", schemas |-> FALSE, next |-> 1]

\* The number of rows in the pages before page i.
RECURSIVE RowsBefore(_, _)
RowsBefore(rp, i) ==
    IF i <= 1 THEN 0 ELSE RowsBefore(rp, i - 1) + rp.sizes[i - 1]

\* The XML document of page i of the report.
ReportPageXml(rp, i) ==
    LET token == IF rp.tokens = "all" \/ (rp.tokens = "first" /\ i = 1)
                 THEN << Leaf("ResumptionToken", "token" \o ToString(i)) >> ELSE <<>>
        schema == IF i = 1 \/ rp.schemas THEN << ReportSchema >> ELSE <<>>
        rows == [k \in 1..rp.sizes[i] |-> ReportRow(RowsBefore(rp, i) + k)]
    IN Elem("QueryResult", <<>>, "",
            token \o
            << Leaf("IsFinished", IF i = Len(rp.sizes) THEN "true" ELSE "false"),
               Elem("ResultXml", <<>>, "",
                    << Elem("rowset", [xmlns |-> "urn:schemas-microsoft-com:xml-analysis:rowset"],
                            "", schema \o rows) >>) >>)

\* What the vendor may answer to request i for the report.
ReportResponses(rp, i) ==
    { JsonResponse(200, JDict([anies |-> JList(<< JStr(XmlBody(ReportPageXml(rp, i))) >>)])) }
    \cup ErrorResponses

\* container[key] for each key of the path in turn; KeyError at a missing key.
RECURSIVE Subscript(_, _)
Subscript(container, path) ==
    IF path = <<>> THEN Return(container)
    ELSE IF container.t # "dict" THEN Raise("TypeError")
    ELSE IF Head(path) \notin DOMAIN container.v THEN Raise("KeyError")
    ELSE Subscript(container.v[Head(path)], Tail(path))

\* _get_real_column_names: generic name to real name; a KeyError is swallowed
\* and leaves the mapping as far as it was built.
get_real_column_names(report_dict) ==
    LET column_info == Subscript(report_dict,
            <<"ResultXml", "rowset", "xsd:schema", "xsd:complexType",
              "xsd:sequence", "xsd:element">>)
    IN IF column_info.kind = "raise"
       THEN IF column_info.exc = "KeyError" THEN Return(EmptyDict) ELSE column_info
       ELSE IF column_info.value.t # "list" THEN Raise("TypeError")
       ELSE LET info == column_info.value.v
                bad == { i \in DOMAIN info :
                            \/ "@name" \notin DOMAIN info[i].v
                            \/ "@saw-sql:columnHeading" \notin DOMAIN info[i].v }
                done == { i \in DOMAIN info : \A j \in bad : i < j }
            IN Return(JDict([generic \in { info[i].v["@name"].v : i \in done } |->
                    LET last == CHOOSE i \in done :
                                    /\ info[i].v["@name"].v = generic
                                    /\ \A j \in done : info[j].v["@name"].v = generic => j <= i
                    IN info[last].v["@saw-sql:columnHeading"]]))

\* _get_report_data
get_report_data(response) ==
    LET anies == Subscript(APIResponse(response).api_data, <<"anies">>)
    IN IF anies.kind = "raise" THEN anies
       ELSE IF anies.value.t # "list" THEN Raise("TypeError")
       ELSE IF anies.value.v = <<>> THEN Raise("IndexError")
       ELSE LET xml_dict == XmlToDict(anies.value.v[1].v.doc)
                report_dict == Subscript(xml_dict, <<"QueryResult">>)
            IN IF report_dict.kind = "raise" THEN report_dict
               ELSE LET rows == Subscript(report_dict.value, <<"ResultXml", "rowset", "Row">>)
                        names == get_real_column_names(report_dict.value)
                        is_finished == Subscript(report_dict.value, <<"IsFinished">>)
                    IN IF rows.kind = "raise" THEN rows
                       ELSE IF names.kind = "raise" THEN names
                       ELSE IF is_finished.kind = "raise" THEN is_finished
                       ELSE Return(JDict(
                                [rows |-> rows.value,
                                 column_names |-> names.value,
                                 is_finished |-> is_finished.value,
                                 resumption_token |->
                                     Get(report_dict.value, "ResumptionToken", JNone)]))

\* _get_rows: a single row comes as a bare dict and is wrapped in a list.
get_rows(data) ==
    LET rows == Get(data, "rows", EmptyList)
    IN IF rows.t = "dict" THEN <<rows>> ELSE rows.v

\* The key a name makes in a row; None is a key of its own.
KeyOf(name) == IF name.t = "none" THEN "None" ELSE name.v

\* _apply_column_names: each row with its keys renamed and Column0 left out.
\* Keys that get the same name (None, for columns that column_names lacks)
\* collapse into one.
apply_column_names(names, data_rows) ==
    [i \in DOMAIN data_rows |->
        LET row == data_rows[i].v
            kept == DOMAIN row \ {"Column0"}
        IN JDict([key \in { KeyOf(Get(names, k, JNone)) : k \in kept } |->
                row[CHOOSE k \in kept : KeyOf(Get(names, k, JNone)) = key]])]

\* dict | dict
Merge(a, b) ==
    [k \in DOMAIN a \cup DOMAIN b |-> IF k \in DOMAIN b THEN b[k] ELSE a[k]]

\* Lines 98-101
ConstantParams == [col_names |-> TRUE, limit |-> rows_per_fetch]

\* Line 121: the test of the while loop
KeepRequesting(data) == data.v["is_finished"] = JStr("false")

\* get_analytics_report and _get_report_data for one request: the exception
\* raised, or the report data.
FetchReportData(response) ==
    IF ~ResponseOk(response)
    THEN RaiseAPIError(response, "Error retrieving analytics report.")
    ELSE get_report_data(response)

\* get_report, lines 95-119: the check of report_path, the first request and
\* what is kept from its response.
GetReportCall ==
    /\ pc = "idle"
    /\ op' = "get_report"
    /\ \E settings \in ReportSettings : \E rp \in Reports :
        /\ args' = settings
        /\ IF settings.report_path = ""
           THEN /\ result' = [kind |-> "raise", exc |-> "ValueError",
                              message |-> "Path to report must be set"]
                /\ pc' = "raised"
                /\ UNCHANGED <<reqLog, api_response, reportVars>>
           ELSE /\ reqLog' = Logged(reqLog, Request("get", "/almaws/v1/analytics/reports",
                                Merge(ConstantParams,
                                      [filter |-> settings.filter,
                                       path |-> settings.report_path])))
                /\ report' = [rp EXCEPT !.next = 2]
                /\ \E r \in ReportResponses(rp, 1) : \E data \in {FetchReportData(r)} :
                    /\ api_response' = r
                    /\ IF data.kind = "raise"
                       THEN /\ result' = data
                            /\ pc' = "raised"
                            /\ UNCHANGED <<report_data, all_rows, column_names,
                                           subsequent_params>>
                       ELSE /\ report_data' = data.value
                            /\ all_rows' = get_rows(data.value)
                            /\ column_names' = data.value.v["column_names"]
                            /\ subsequent_params' =
                                   [token |-> data.value.v["resumption_token"]]
                            /\ pc' = "gr_loop"
                            /\ UNCHANGED result
    /\ UNCHANGED OtherThanReport

\* Lines 121-126: the body of the while loop, a further request and what is
\* done with its response.
GetReportPage ==
    /\ pc = "gr_loop"
    /\ KeepRequesting(report_data)
    /\ reqLog' = Logged(reqLog, Request("get", "/almaws/v1/analytics/reports",
                                        Merge(ConstantParams, subsequent_params)))
    /\ report' = [report EXCEPT !.next = @ + 1]
    /\ \E r \in ReportResponses(report, report.next) : \E data \in {FetchReportData(r)} :
        /\ api_response' = r
        /\ IF data.kind = "raise"
           THEN /\ result' = data
                /\ pc' = "raised"
                /\ UNCHANGED <<report_data, all_rows>>
           ELSE /\ report_data' = data.value
                /\ all_rows' = all_rows \o get_rows(data.value)
                /\ pc' = "gr_loop"
                /\ UNCHANGED result
    /\ UNCHANGED <<op, args, column_names, subsequent_params, OtherThanReport>>

\* Lines 128-130, once the while loop has ended.
GetReportReturn ==
    /\ pc = "gr_loop"
    /\ ~KeepRequesting(report_data)
    /\ result' = Return(apply_column_names(column_names, all_rows))
    /\ pc' = "returned"
    /\ UNCHANGED <<op, reqLog, api_response, args, reportVars, OtherThanReport>>

-----------------------------------------------------------------------------

InitCall ==
    /\ pc = "idle"
    /\ op = ""
    /\ reqLog = <<>>
    /\ api_response = NoResponse
    /\ result = NoResult

InitJob ==
    /\ serverStatus = "QUEUED"
    /\ status = ""

NoServer == [count |-> 0, cap |-> 0, bare |-> FALSE, faults |-> 0]

InitSet ==
    /\ server = NoServer
    /\ get_all = TRUE
    /\ alma_set = JNone
    /\ members = <<>>
    /\ offset = 0
    /\ addCalls = 0

InitMarc ==
    /\ rec = NoRecord
    /\ xml_out = NoResult
    /\ wrapper = NoWrapper
    /\ assigned = {}

InitEnv == read = NoResult

InitArgs == args = NoArgs

InitReport ==
    /\ report = NoReport
    /\ report_data = JNone
    /\ all_rows = <<>>
    /\ column_names = EmptyDict
    /\ subsequent_params = <<>>

Init == InitCall /\ InitJob /\ InitSet /\ InitMarc /\ InitEnv /\ InitArgs /\ InitReport

\* The caller is done with the outcome of a call and may make the next one.
Reset ==
    /\ pc \in {"returned", "raised", "sent"}
    /\ pc' = "idle"
    /\ op' = ""
    /\ reqLog' = <<>>
    /\ api_response' = NoResponse
    /\ result' = NoResult
    /\ serverStatus' = "QUEUED"
    /\ status' = ""
    /\ server' = NoServer
    /\ get_all' = TRUE
    /\ alma_set' = JNone
    /\ members' = <<>>
    /\ offset' = 0
    /\ addCalls' = 0
    /\ rec' = NoRecord
    /\ xml_out' = NoResult
    /\ read' = NoResult
    /\ wrapper' = NoWrapper
    /\ assigned' = {}
    /\ args' = NoArgs
    /\ report' = NoReport
    /\ report_data' = JNone
    /\ all_rows' = <<>>
    /\ column_names' = EmptyDict
    /\ subsequent_params' = <<>>

Next ==
    \/ WaitForCompletionCall
    \/ WaitForCompletionTest
    \/ WaitForCompletionPoll
    \/ JobProgress
    \/ EnvelopeCall
    \/ CallApi
    \/ RecordGet
    \/ RecordNew
    \/ RecordAssign
    \/ RecordSerialize
    \/ RecordRead
    \/ RecordSend
    \/ APIResponseNew
    \/ APIErrorNew
    \/ ReadApiCallsRemaining
    \/ ReadContentType
    \/ ReadErrorMessages
    \/ ReadOk
    \/ CallRaiseForStatus
    \/ GetSetCall
    \/ GetSetTest
    \/ GetSetPage
    \/ GetSetReturn
    \/ GetReportCall
    \/ GetReportPage
    \/ GetReportReturn
    \/ Reset

Spec == Init /\ [][Next]_vars

\* The caller is one thread that runs a started call on: a loop whose test
\* holds takes its next round, a loop whose test fails is left.  The job
\* instance runs on at the server.
Fairness ==
    /\ WF_vars(WaitForCompletionTest)
    /\ WF_vars(WaitForCompletionPoll)
    /\ WF_vars(JobProgress)
    /\ WF_vars(GetSetTest)
    /\ WF_vars(GetSetPage)
    /\ WF_vars(GetSetReturn)

FairSpec == Spec /\ Fairness

-----------------------------------------------------------------------------
(* The claims.                                                             *)

Finished == pc \in {"returned", "raised", "sent"}

\* C1: wait_for_completion, having first read an in-progress status, returns
\* once the server reports a status outside the in-progress set.
C1_WaitReturnsOnceJobDone ==
    (op = "wait_for_completion" /\ status \in InProgress
        /\ serverStatus \notin InProgress) ~> Finished

\* The server answers every member-page request with the members it was asked
\* for, as an array, and holds as many members as the set declares.
HonestServer ==
    /\ server.count = alma_set.number_of_members
    /\ server.cap >= Limit
    /\ ~server.bare
    /\ server.faults = 0

GetAllReturned == op = "get_set" /\ pc = "returned" /\ get_all

\* C2: with an honest server get_set returns the N declared members in server
\* order, fetched with ceil(N / 100) requests of limit 100 at offsets 0, 100, ...
C2_PagesInOrder ==
    GetAllReturned /\ HonestServer =>
        LET N == alma_set.number_of_members
            pages == Tail(reqLog)
        IN /\ Len(pages) = (N + Limit - 1) \div Limit
           /\ \A i \in 1..Len(pages) :
                /\ pages[i].method = "get"
                /\ pages[i].api = alma_set.members_api
                /\ pages[i].parameters = [offset |-> (i - 1) * Limit, limit |-> Limit]
           /\ alma_set.members = [i \in 1..N |-> SetMember(ServerMember(i))]
           /\ result = Return(alma_set)

C2_Witness ==
    /\ GetAllReturned /\ HonestServer
    /\ Len(alma_set.members) = MaxMembers
    /\ Len(reqLog) = 4
    /\ reqLog[4].parameters.offset = 200

SingleRequestMethods == DOMAIN EnvelopeMethods \cup DOMAIN RecordMethods

MessageOf(m) ==
    IF m \in DOMAIN EnvelopeMethods THEN EnvelopeMethods[m].message
    ELSE RecordMethods[m].message

\* C3: a single-request facade method makes exactly one request, returns iff
\* the response is ok, and otherwise raises APIError with its own message and
\* the status code of the response.
C3_OneRequestThenEnvelopeOrAPIError ==
    op \in SingleRequestMethods /\ Finished =>
        /\ Len(reqLog) = 1
        /\ result.kind = "return" <=> ResponseOk(api_response)
        /\ ~ResponseOk(api_response) =>
            /\ result.exc = "APIError"
            /\ result.message = MessageOf(op)
            /\ result.status_code = api_response.status_code

\* C4: once a member-page request of get_set has been answered with a
\* non-success status, get_set has raised APIError.
C4_FailedPageRaises ==
    op = "get_set" /\ server.faults > 0 =>
        pc = "raised" /\ result.kind = "raise" /\ result.exc = "APIError"

\* C5: get_set with get_all_members always leaves its pagination loop.
C5_GetSetTerminates ==
    (op = "get_set" /\ pc \in {"gs_loop", "gs_page"}) ~> Finished

\* C6: a Set returned by get_set with get_all_members has as many members as
\* it declares.
C6_MemberCountMatches ==
    GetAllReturned => Len(alma_set.members) = alma_set.number_of_members

\* C7: a member page whose member field is a single object contributes that
\* one member, and the offset advances by 1.
C7_BareMemberWrapped ==
    /\ op = "get_set"
    /\ pc \in {"gs_loop", "raised"}
    /\ Len(reqLog) \in 2..(MaxReqLog - 1)
    /\ NewMembers(api_response).t = "dict"
    => /\ pc = "gs_loop"
       /\ members # <<>>
       /\ members[Len(members)] = SetMember(NewMembers(api_response))
       /\ offset = reqLog[Len(reqLog)].parameters.offset + 1

\* C8: get_set attaches the members by one add_members call, made after the
\* last page; inside the loop the Set has no members; with get_all_members
\* false it attaches the empty sequence after one request.
C8_MembersAttachedOnce ==
    op = "get_set" =>
        /\ pc \in {"gs_loop", "gs_page"} =>
            addCalls = 0 /\ "members" \notin DOMAIN alma_set
        /\ pc = "raised" => addCalls = 0
        /\ pc = "returned" =>
            /\ addCalls = 1
            /\ "members" \in DOMAIN alma_set
            /\ alma_set.members = members
            /\ ~get_all => alma_set.members = <<>> /\ Len(reqLog) = 1

C8_Witness ==
    /\ op = "get_set" /\ pc = "gs_page"
    /\ Len(members) = Limit
    /\ "members" \notin DOMAIN alma_set

Serialized == xml_out.kind = "return"

Children(e) == { e.children[i] : i \in DOMAIN e.children }

\* C9: the XML serialized from an unmutated fetched record holds the original
\* <record> subtree and every declared named attribute with its original text
\* and XML attributes.
C9_RoundTrip ==
    Serialized /\ wrapper # NoWrapper /\ assigned = {} =>
        /\ Find(xml_out.value, "record") = Find(wrapper, "record")
        /\ \A c \in Children(wrapper) :
            c.tag \in SlotSet(rec.cls) => c \in Children(xml_out.value)

C9_Witness ==
    /\ Serialized /\ assigned = {}
    /\ rec.cls = "BibRecord"
    /\ Find(wrapper, "record") = <<MarcXml1>>
    /\ Elem("brief_level", [desc |-> "01"], "01", <<>>) \in Children(xml_out.value)

\* C10, as claimed: every top-level child of the fetched wrapper, other than
\* <record> and the attributes the caller assigned, is in the serialized XML
\* with its original content.
C10_AllChildrenKept ==
    Serialized /\ wrapper # NoWrapper =>
        \A c \in Children(wrapper) :
            c.tag # "record" /\ c.tag \notin assigned => c \in Children(xml_out.value)

\* C10, amended: of the top-level children of the fetched wrapper the
\* serialized XML keeps the declared named attributes of the subtype, with
\* their original content unless assigned, and none of the others.
C10_OnlyNamedAttributesKept ==
    Serialized /\ wrapper # NoWrapper =>
        \A c \in Children(wrapper) :
            IF c.tag \in SlotSet(rec.cls)
            THEN c.tag \notin assigned => c \in Children(xml_out.value)
            ELSE c.tag # "record" =>
                    \A d \in Children(xml_out.value) : d.tag # c.tag

C10_Witness ==
    /\ Serialized
    /\ rec.cls = "HoldingRecord"
    /\ Leaf("holding_id", "22447985240006533") \in Children(wrapper)
    /\ Leaf("suppress_from_publishing", "false") \in Children(xml_out.value)

\* The children of an element that have the tag.
WithTag(e, tag) == SelectSeq(e.children, LAMBDA c : c.tag = tag)

\* What the fetched record serialized to before the caller assigned anything.
SerializedBefore == alma_xml(RecordFromResponse(rec.cls, api_response))

\* C11: after the caller assigns named attributes of a fetched record, the
\* serialized XML holds the assigned value of each, every other named
\* attribute as it was serialized before, and the same MARC record.
C11_AssignedValueSerialized ==
    Serialized /\ wrapper # NoWrapper /\ assigned # {} /\ "marc_record" \notin assigned =>
        /\ \A a \in assigned :
            WithTag(xml_out.value, a) = <<Leaf(a, rec.attrs[a].v)>>
        /\ \A a \in SlotSet(rec.cls) \ assigned :
            WithTag(xml_out.value, a) = WithTag(SerializedBefore, a)
        /\ WithTag(xml_out.value, "record") = WithTag(SerializedBefore, "record")

C11_Witness ==
    /\ Serialized
    /\ assigned = {"suppress_from_publishing"}
    /\ Leaf("suppress_from_publishing", "true") \in Children(wrapper)
    /\ Leaf("suppress_from_publishing", "false") \in Children(xml_out.value)
    /\ Find(xml_out.value, "record") = <<MarcXml1>>

\* The record object has no MARC record: the attribute is missing or None.
NullMarc(obj) == ~HasAttr(obj, "marc_record") \/ obj.attrs["marc_record"] = JNone

\* C12, as claimed: serializing a record without MARC record fails with a
\* dedicated serialization error, and create/update with it make no request.
C12_DedicatedSerializationError ==
    rec # NoRecord /\ NullMarc(rec) =>
        /\ xml_out # NoResult => xml_out = Raise("SerializationError")
        /\ op \in SendRecordMethods =>
            result = Raise("SerializationError") /\ reqLog = <<>>

\* C12, amended: serializing a record without MARC record fails with
\* AttributeError, no XML is produced, and create/update with it raise that
\* error without making a request.
C12_AttributeErrorNoRequest ==
    rec # NoRecord /\ NullMarc(rec) =>
        /\ xml_out # NoResult => xml_out = Raise("AttributeError")
        /\ op \in SendRecordMethods =>
            /\ result = Raise("AttributeError")
            /\ pc = "raised"
            /\ reqLog = <<>>
            /\ api_response = NoResponse

C12_Witness ==
    /\ op = "update_bib_record" /\ pc = "raised"
    /\ wrapper # NoWrapper /\ Find(wrapper, "record") = <<>>
    /\ rec.attrs["marc_record"] = JNone
    /\ reqLog = <<>>

\* The fetch of a record was answered with an ok response carrying a wrapper.
FetchedWrapper ==
    /\ op \in GetRecordMethods
    /\ pc \in {"returned", "raised"}
    /\ ResponseOk(api_response)
    /\ api_response.body.t = "xml"

\* C13: a wrapper without <record> child gives a record object with
\* marc_record null and the named attributes; a wrapper with a <record> child
\* gives marc_record equal to the decoded MARC record.
C13_RecordIffRecordChild ==
    FetchedWrapper =>
        LET w == api_response.body.doc
        IN /\ result.kind = "return"
           /\ \A c \in Children(w) :
                c.tag \in SlotSet(result.value.cls) => HasAttr(result.value, c.tag)
           /\ IF Find(w, "record") = <<>>
              THEN result.value.attrs["marc_record"] = JNone
              ELSE result.value.attrs["marc_record"] = ParseMarcXml(Find(w, "record")[1])

\* C14: a wrapper with more than one <record> makes the construction of the
\* record fail.
C14_MalformedRecordRaises ==
    FetchedWrapper /\ Len(WithTag(api_response.body.doc, "record")) > 1 =>
        result.kind = "raise"

\* The envelope the caller built.
Envelope == result.value

HeaderOf(name) ==
    IF name \in DOMAIN api_response.headers THEN api_response.headers[name] ELSE <<>>

\* C15: error_messages never raises and returns strings: the errorMessage of
\* each entry ("" if absent), in order, when errorList.error is a sequence; of
\* the one entry when it is a mapping; nothing in every other case.
C15_ErrorMessages ==
    read # NoResult /\ read.property = "error_messages" =>
        LET data == Envelope.api_data
            errorList == IF data.t = "dict" /\ "errorList" \in DOMAIN data.v
                         THEN data.v["errorList"] ELSE JNone
            error == IF errorList.t = "dict" /\ "error" \in DOMAIN errorList.v
                     THEN errorList.v["error"] ELSE JNone
            entries == CASE error.t = "list" -> error.v
                         [] error.t = "dict" -> <<error>>
                         [] OTHER -> <<>>
            message(e) == IF e.t = "dict" /\ "errorMessage" \in DOMAIN e.v
                          THEN e.v["errorMessage"] ELSE JStr("")
        IN /\ read.outcome.kind = "return"
           /\ read.outcome.value = [i \in DOMAIN entries |-> message(entries[i])]
           /\ \A i \in DOMAIN read.outcome.value : read.outcome.value[i].t = "str"

\* The body cannot be decoded for the content kind the envelope decodes it as.
Undecodable ==
    \/ content_type(api_response) = "json" /\ api_response.body.t # "json"
    \/ op = "APIError" /\ content_type(api_response) = "xml"
        /\ api_response.body.t # "xml"

\* C16: constructing an APIResponse or an APIError never raises, and a body
\* that cannot be decoded gives empty decoded data.
C16_ConstructionNeverRaises ==
    op \in {"APIResponse", "APIError"} /\ Finished =>
        /\ result.kind = "return"
        /\ Undecodable => Envelope.api_data = EmptyDict

\* C17: with Content-Type application/json;charset=UTF-8 and a JSON body the
\* decoded data is the parsed document.
C17_JsonDecoded ==
    /\ op \in {"APIResponse", "APIError"} /\ pc = "returned"
    /\ HeaderOf("ContentType") = CtJson
    /\ api_response.body.t = "json"
    => Envelope.api_data = api_response.body.doc

C17_Witness ==
    /\ op = "APIResponse" /\ pc = "returned"
    /\ HeaderOf("ContentType") = CtJson
    /\ api_response.body = JsonBody(JDict([foo |-> JStr("bar")]))
    /\ Get(Envelope.api_data, "foo", JStr("")) = JStr("bar")
    /\ PyLen(Envelope.api_data) = 1

\* C18: for a content kind other than json the decoded data of an
\* APIResponse is the one-entry mapping of "content" to the body's bytes.
C18_ContentKept ==
    /\ op = "APIResponse" /\ pc = "returned"
    /\ content_type(api_response) # "json"
    => /\ DOMAIN Envelope.api_data.v = {"content"}
       /\ Envelope.api_data.v["content"] = JBytes(api_response.body)

C18_Witness ==
    /\ op = "APIResponse" /\ pc = "returned"
    /\ HeaderOf("ContentType") = CtXml
    /\ api_response.body = JsonBody(JDict([foo |-> JStr("bar")]))
    /\ Envelope.api_data = JDict([content |-> JBytes(api_response.body)])

ReadOf(property) == read # NoResult /\ read.property = property

\* The header is application/<subtype>;charset=UTF-8 and nothing else.
IsPattern(h) == Len(h) = 3 /\ h[1] = "application/" /\ h[3] = ";charset=UTF-8"

\* C19, as claimed: the content type is the subtype of a header that is
\* application/<subtype>;charset=UTF-8, and empty for any other header or none;
\* with an empty content type the body is not decoded as JSON.
C19_SubtypeOfMatchingHeader ==
    ReadOf("content_type") =>
        LET h == HeaderOf("ContentType")
        IN /\ read.outcome = Return(IF IsPattern(h) THEN h[2] ELSE "")
           /\ read.outcome.value = "" =>
                Envelope.api_data = JDict([content |-> JBytes(api_response.body)])

\* C19, amended: the content type of a header that is
\* application/<subtype>;charset=UTF-8 with a subtype starting with a-z is the
\* subtype; it is empty exactly when the header has no "application/" that is
\* followed by a character a-z and, later, by ";charset=UTF-8"; the body is
\* decoded as JSON exactly when the content type is json.
C19_SubtypeSearchedInHeader ==
    ReadOf("content_type") =>
        LET h == HeaderOf("ContentType")
            kind == read.outcome.value
            found == \E i, j \in DOMAIN h :
                        /\ i + 1 < j
                        /\ h[i] = "application/"
                        /\ h[i + 1] \in LowerInitial
                        /\ h[j] = ";charset=UTF-8"
        IN /\ read.outcome.kind = "return"
           /\ IsPattern(h) /\ h[2] \in LowerInitial => kind = h[2]
           /\ kind = "" <=> ~found
           /\ op = "APIResponse" =>
                Envelope.api_data =
                    IF kind # "json" THEN JDict([content |-> JBytes(api_response.body)])
                    ELSE IF api_response.body.t = "json" THEN api_response.body.doc
                    ELSE EmptyDict

C19_Witness ==
    /\ ReadOf("content_type")
    /\ HeaderOf("ContentType") = <<"x-", "application/", "json", ";charset=UTF-8">>
    /\ read.outcome = Return("json")
    /\ api_response.body.t = "json"
    /\ Envelope.api_data = api_response.body.doc

\* The number a string of digits writes, read from the left.
RECURSIVE NumberFrom(_, _)
NumberFrom(acc, digits) ==
    IF digits = <<>> THEN acc
    ELSE NumberFrom(10 * acc + DigitValue[Head(digits)], Tail(digits))

IsDigits(s) == s # <<>> /\ \A i \in DOMAIN s : s[i] \in DOMAIN DigitValue

\* C20: api_calls_remaining never raises; it is the integer the
\* X-Exl-Api-Remaining header writes, and 0 when the header is missing or
\* writes no integer.
C20_ApiCallsRemaining ==
    ReadOf("api_calls_remaining") =>
        LET h == HeaderOf("XExlApiRemaining")
            n == read.outcome.value
        IN /\ read.outcome.kind = "return"
           /\ n \in Int
           /\ "XExlApiRemaining" \notin DOMAIN api_response.headers => n = 0
           /\ IsDigits(h) => n = NumberFrom(0, h)
           /\ h # <<>> /\ h[1] = "+" /\ IsDigits(Tail(h)) => n = NumberFrom(0, Tail(h))
           /\ h # <<>> /\ h[1] = "-" /\ IsDigits(Tail(h)) => n = 0 - NumberFrom(0, Tail(h))
           /\ ~IsDigits(h) /\ ~(h # <<>> /\ h[1] \in {"+", "-"} /\ IsDigits(Tail(h))) => n = 0

C20_Witness ==
    /\ ReadOf("api_calls_remaining")
    /\ HeaderOf("XExlApiRemaining") = <<"1", "2", "3", "4", "5">>
    /\ read.outcome = Return(12345)

\* The status codes that requests classifies as errors.
ErrorStatuses == {400, 499, 500, 599}

\* C21 as stated: ok is true exactly when the status lies in 200-399, and
\* raise_for_status() returns exactly then.
C21_OkIffSuccessStatus ==
    /\ ReadOf("ok") =>
          read.outcome.value = (api_response.status_code \in 200..399)
    /\ ReadOf("raise_for_status") =>
          (read.outcome.kind = "return") = (api_response.status_code \in 200..399)

\* C21, amended: ok is false exactly for the error statuses 400-599 (so it is
\* true for 200-399, and also below 200 and from 600 on); raise_for_status()
\* returns nothing exactly when ok is true, and otherwise raises an error that
\* carries the status code.
C21_OkUnlessErrorStatus ==
    /\ ReadOf("ok") =>
          /\ read.outcome.kind = "return"
          /\ read.outcome.value = (api_response.status_code \notin ErrorStatuses)
          /\ api_response.status_code \in 200..399 => read.outcome.value
    /\ ReadOf("raise_for_status") =>
          IF api_response.status_code \in ErrorStatuses
          THEN /\ read.outcome.kind = "raise"
               /\ read.outcome.status_code = api_response.status_code
          ELSE read.outcome = Return(JNone)

C21_Witness ==
    /\ ReadOf("raise_for_status")
    /\ api_response.status_code = 500
    /\ read.outcome.kind = "raise"

\* The method arguments that name delete, get, post or put in some case.
SupportedMethodArgs == {"get", "GET", "Post", "DeLeTe", "put", "PUT"}

\* C22: _call_api raises ValueError, with no transport request made, when the
\* method is not delete, get, post or put in any case or the data format is
\* not json or xml; for valid arguments it makes exactly one request.
C22_ArgumentsCheckedBeforeRequest ==
    op = "_call_api" =>
        IF args.method \in SupportedMethodArgs /\ args.data_format \in {"json", "xml"}
        THEN /\ Len(reqLog) = 1
             /\ reqLog[1].method = args.method
             /\ result = Return(api_response)
        ELSE /\ reqLog = <<>>
             /\ api_response = NoResponse
             /\ result.kind = "raise"
             /\ result.exc = "ValueError"

C22_Witness ==
    /\ op = "_call_api"
    /\ args = [method |-> "GET", data_format |-> "xml"]
    /\ Len(reqLog) = 1
    /\ result.kind = "return"

\* The description string of the set-description response, "" when missing.
DescriptionOf(response) ==
    IF response.body.t = "json"
       /\ "content" \in DOMAIN response.body.doc.v
       /\ "desc" \in DOMAIN response.body.doc.v["content"].v
    THEN response.body.doc.v["content"].v["desc"].v
    ELSE ""

\* The set-description request of get_set has just been answered with success.
SetDescribed ==
    op = "get_set" /\ Len(reqLog) = 1 /\ api_response.status_code = 200

PageRequests == IF op = "get_set" /\ reqLog # <<>> THEN Tail(reqLog) ELSE <<>>

\* The number of members in the page that api_response carries.
MembersReturned ==
    IF api_response.status_code = 200 /\ "member" \in DOMAIN api_response.body.doc.v
    THEN IF api_response.body.doc.v["member"].t = "list"
         THEN Len(api_response.body.doc.v["member"].v) ELSE 1
    ELSE 0

\* C24: the first member-page request has offset 0; whenever the loop is about
\* to request or has just processed a page, offset is the number of members
\* accumulated so far, and it exceeds the offset of the last request by the
\* number of members that page returned; on a server that answers every
\* request, each request starts right after the last member of the page before
\* it, also when that page was shorter than the limit.
C24_OffsetIsMembersAccumulated ==
    /\ PageRequests # <<>> => PageRequests[1].parameters.offset = 0
    /\ \A k \in DOMAIN PageRequests : PageRequests[k].parameters.limit = Limit
    /\ op = "get_set" /\ pc \in {"gs_loop", "gs_page"} => offset = Len(members)
    /\ op = "get_set" /\ pc = "gs_loop" /\ PageRequests # <<>> /\ Len(reqLog) < MaxReqLog =>
          offset = PageRequests[Len(PageRequests)].parameters.offset + MembersReturned
    /\ op = "get_set" /\ server.faults = 0 /\ ~server.bare =>
          \A k \in DOMAIN PageRequests : k > 1 =>
              PageRequests[k].parameters.offset =
                  PageRequests[k - 1].parameters.offset
                  + Len(ServerSlice(server, PageRequests[k - 1].parameters.offset, Limit))

\* A page of ShortCap members was followed by a request at offset ShortCap.
C24_Witness ==
    /\ Len(PageRequests) >= 2
    /\ server.cap = ShortCap
    /\ PageRequests[2].parameters.offset = ShortCap
    /\ pc = "gs_loop"
    /\ offset = 2 * ShortCap
    /\ Len(members) = offset

\* C25: within one get_set call the member-page requests carry strictly
\* increasing offsets, so no two of them carry the same offset.
C25_OffsetsStrictlyIncrease ==
    \A j, k \in DOMAIN PageRequests :
        j < k => PageRequests[j].parameters.offset < PageRequests[k].parameters.offset

Range(f) == { f[i] : i \in DOMAIN f }

\* An APIError was built from a response.
ErrorBuilt == op = "APIError" /\ pc = "returned"

\* The errorMessage texts of the error elements of an XML error document.
XmlMessages(root) ==
    LET lists == SelectSeq(root.children, LAMBDA c : c.tag = "errorList")
        errors == SelectSeq(lists[1].children, LAMBDA c : c.tag = "error")
    IN [i \in DOMAIN errors |->
          JStr(SelectSeq(errors[i].children, LAMBDA c : c.tag = "errorMessage")[1].text)]

\* C26: an APIError built from a response of content kind xml has as decoded
\* data what the body's web_service_result root parses to, and an empty mapping
\* when the root is another element, so error_messages gives the errorMessage
\* texts of web_service_result.errorList.error in document order; built from a
\* response of content kind json its decoded data is the parsed JSON body.
C26_XmlErrorBodyReparsed ==
    ErrorBuilt =>
        /\ content_type(api_response) = "xml" =>
              LET root == api_response.body.doc
              IN /\ api_response.body.t = "xml"
                 /\ root.tag = "web_service_result" => Envelope.api_data = XValue(root)
                 /\ root.tag # "web_service_result" => Envelope.api_data = EmptyDict
                 /\ ReadOf("error_messages") /\ root.tag # "web_service_result" =>
                       read.outcome = Return(<<>>)
                 /\ ReadOf("error_messages") /\ root.tag = "web_service_result"
                       /\ (\E c \in Range(root.children) :
                              c.tag = "errorList" /\ c.children # <<>>) =>
                       read.outcome = Return(XmlMessages(root))
        /\ content_type(api_response) = "json" /\ api_response.body.t = "json" =>
              Envelope.api_data = api_response.body.doc

C26_Witness ==
    /\ ErrorBuilt
    /\ content_type(api_response) = "xml"
    /\ ReadOf("error_messages")
    /\ read.outcome = Return(<< JStr("Not valid."), JStr("Not found.") >>)

\* The named attributes each record subtype declares.
DeclaredNames ==
    [BibRecord |-> {"brief_level", "cataloging_level", "record_format",
                    "suppress_from_publishing"},
     HoldingRecord |-> {"suppress_from_publishing"},
     AuthorityRecord |-> {"cataloging_level", "record_format", "vocabulary"}]

\* The caller holds a record built from a wrapper.
HoldsFetched == op \in GetRecordMethods /\ pc = "returned"

\* The text of the first child of the wrapper with the tag, "" if there is none.
ChildText(tag) ==
    IF Find(wrapper, tag) = <<>> THEN "" ELSE Find(wrapper, tag)[1].text

\* C27: on a record built from a wrapper, every top-level child named by one
\* of the subtype's declared named attributes is an attribute with the child's
\* value, which the caller can overwrite; no other child is an attribute; every
\* child is in the passthrough mapping, and bib_id, holding_id and created_by
\* read mms_id, holding_id and created_by from it, "" when the child is absent.
C27_NamedAttributesAndPassthrough ==
    HoldsFetched =>
        /\ \A c \in Children(wrapper) :
              /\ c.tag \in DeclaredNames[rec.cls] =>
                    /\ HasAttr(rec, c.tag)
                    /\ c.tag \notin assigned => rec.attrs[c.tag] = XValue(c)
              /\ c.tag \notin DeclaredNames[rec.cls] /\ c.tag \notin assigned =>
                    ~HasAttr(rec, c.tag)
              /\ c.tag \in DOMAIN rec.attrs["_all_attributes"].v
              /\ c.tag # "record" => rec.attrs["_all_attributes"].v[c.tag] = XValue(c)
        /\ assigned \subseteq DOMAIN rec.attrs
        /\ ReadOf("bib_id") =>
              rec.cls = "BibRecord" /\ read.outcome = Return(JStr(ChildText("mms_id")))
        /\ ReadOf("holding_id") =>
              rec.cls = "HoldingRecord" /\ read.outcome = Return(JStr(ChildText("holding_id")))
        /\ ReadOf("created_by") =>
              rec.cls = "HoldingRecord" /\ read.outcome = Return(JStr(ChildText("created_by")))

C27_Witness ==
    /\ HoldsFetched
    /\ rec.cls = "HoldingRecord"
    /\ wrapper.tag = "holding"
    /\ ReadOf("created_by")
    /\ read.outcome = Return(JStr("import"))
    /\ rec.attrs["suppress_from_publishing"] = JStr("false")
    /\ ~HasAttr(rec, "holding_id")

\* The record type of each record subtype.
Discriminator ==
    [AuthorityRecord |-> "authority", BibRecord |-> "bib", HoldingRecord |-> "holding"]

\* C28: the record type of a record object is "authority", "bib" or "holding"
\* according to its class, whether it was built without a response or from
\* a wrapper with any root element, and it is the root element of the
\* serialized XML.
C28_DiscriminatorFixedByClass ==
    rec # NoRecord =>
        /\ rec.attrs["_record_type"] = JStr(Discriminator[rec.cls])
        /\ Serialized => xml_out.value.tag = Discriminator[rec.cls]

\* A HoldingRecord built from a bib wrapper serializes as a holding.
C28_Witness ==
    /\ rec # NoRecord
    /\ rec.cls = "HoldingRecord"
    /\ wrapper # NoWrapper
    /\ wrapper.tag = "bib"
    /\ Serialized
    /\ xml_out.value.tag = "holding"

\* The named attributes of each record subtype, in declared order.
DeclaredOrder ==
    [BibRecord |-> <<"brief_level", "cataloging_level", "record_format",
                     "suppress_from_publishing">>,
     HoldingRecord |-> <<"suppress_from_publishing">>,
     AuthorityRecord |-> <<"cataloging_level", "record_format", "vocabulary">>]

\* C29: the serialized XML of a record with a MARC record has the record type
\* as root element; its children are one element for each declared named
\* attribute, in declared order, holding the attribute's current value (an
\* empty element when the attribute was never set), and then the MARCXML
\* <record> element as last child; no XML declaration is written.
C29_SerializedShape ==
    Serialized =>
        LET names == DeclaredOrder[rec.cls]
            out == xml_out.value
        IN /\ out.tag = rec.attrs["_record_type"].v
           /\ Len(out.children) = Len(names) + 1
           /\ \A i \in DOMAIN names :
                /\ out.children[i].tag = names[i]
                /\ ~HasAttr(rec, names[i]) => out.children[i] = Leaf(names[i], "")
                /\ HasAttr(rec, names[i]) =>
                      <<out.children[i]>> = XEmit(names[i], rec.attrs[names[i]])
                /\ HasAttr(rec, names[i]) /\ rec.attrs[names[i]].t = "str" =>
                      out.children[i] = Leaf(names[i], rec.attrs[names[i]].v)
           /\ out.children[Len(names) + 1].tag = "record"
           /\ out.children[Len(names) + 1] = record_to_xml_node(rec.attrs["marc_record"])
           /\ ~xml_out.xml_declaration

\* A sparse bib: brief_level was never set and is written as an empty element.
C29_Witness ==
    /\ Serialized
    /\ rec.cls = "BibRecord"
    /\ ~HasAttr(rec, "brief_level")
    /\ HasAttr(rec, "record_format")
    /\ xml_out.value.children[1] = Leaf("brief_level", "")
    /\ Len(xml_out.value.children) = 5

\* The resumption token of the first response of the report, None if it has none.
FirstToken ==
    IF report.tokens \in {"first", "all"} THEN JStr("token1") ELSE JNone

\* Row k of the report under the real column names, without Column0.
RenamedRow(k) ==
    JDict(("Title" :> JStr("Title " \o ToString(k))) @@ ("MMS Id" :> JStr(ToString(k))))

\* C30: get_report raises ValueError with no request made when report_path is
\* unset.  Otherwise the first request carries path, filter, col_names and
\* limit, and every later request carries col_names, limit and the resumption
\* token of the first response; one request is made per page up to the page
\* whose is_finished is not "false"; and as long as every request is answered
\* with a page, the call returns the rows of all pages in fetch order, renamed
\* with the column names of the first response and without Column0.
C30_ReportRowsReturned ==
    op = "get_report" =>
        IF args.report_path = ""
        THEN /\ reqLog = <<>>
             /\ pc = "raised"
             /\ result.exc = "ValueError"
        ELSE /\ reqLog # <<>>
             /\ reqLog[1].parameters =
                    [col_names |-> TRUE, limit |-> 1000,
                     filter |-> args.filter, path |-> args.report_path]
             /\ \A i \in 2..Len(reqLog) :
                    reqLog[i].parameters =
                        [col_names |-> TRUE, limit |-> 1000, token |-> FirstToken]
             /\ Len(reqLog) = report.next - 1
             /\ Len(reqLog) <= Len(report.sizes)
             /\ api_response.status_code = 200 => pc # "raised"
             /\ pc = "returned" =>
                    /\ Len(reqLog) = Len(report.sizes)
                    /\ result = Return([k \in 1..RowsBefore(report, report.next) |->
                                            RenamedRow(k)])

====
